---- MODULE Spec2Model ----
(***************************************************************************)
(* A model of the KTU notes downloader (all_in_1.py, scraper.py): the      *)
(* Drive identifier extraction, the reference extraction of a subject      *)
(* page, the filename resolution and the download loop of scrape_subject,  *)
(* with the subject directory as a map from file names to bytes.           *)
(*                                                                         *)
(* Strings are sequences of one-character strings, so that the regular     *)
(* expressions and the string methods of the source are computed character *)
(* by character.                                                           *)
(***************************************************************************)
EXTENDS Integers, Sequences, FiniteSets, TLC

(***************************************************************************)
(* Characters and the string methods the source uses.                      *)
(***************************************************************************)
LowerSeq ==
  <<"a","b","c","d","e","f","g","h","i","j","k","l","m",
    "n","o","p","q","r","s","t","u","v","w","x","y","z">>

UpperSeq ==
  <<"A","B","C","D","E","F","G","H","I","J","K","L","M",
    "N","O","P","Q","R","S","T","U","V","W","X","Y","Z">>

DigitSeq ==
  <<"0","1","2","3","4","5","6","7","8","9">>

LowerChars == { LowerSeq[k] : k \in 1..26 }

UpperChars == { UpperSeq[k] : k \in 1..26 }

\* the character class \d
DigitChars == { DigitSeq[k] : k \in 1..10 }

\* the character class [a-zA-Z0-9_-]
IdChars == LowerChars \cup UpperChars \cup DigitChars \cup {"_", "-"}

\* the character class [<>:"/\\|?*]
ReservedChars == {"<", ">", ":", "\"", "/", "\\", "|", "?", "*"}

\* the character class \s
SpaceChars == {" ", "\t", "\n"}

\* the character class ['"]
QuoteChars == {"\"", "'"}

\* str.lower() on one character
LowerChar(c) ==
  IF c \in UpperChars
    THEN LowerSeq[CHOOSE k \in 1..26 : UpperSeq[k] = c]
    ELSE c

\* str.lower()
Lower(s) == [k \in 1..Len(s) |-> LowerChar(s[k])]

\* str.upper()
Upper(s) ==
  [k \in 1..Len(s) |->
     IF s[k] \in LowerChars
       THEN UpperSeq[CHOOSE j \in 1..26 : LowerSeq[j] = s[k]]
       ELSE s[k]]

\* s[i:] starts with p, i counted from 1
MatchAt(s, p, i) ==
  /\ i >= 1
  /\ i + Len(p) - 1 <= Len(s)
  /\ \A k \in 1..Len(p) : s[i + k - 1] = p[k]

\* the same, ignoring case (re.IGNORECASE on a literal)
MatchAtI(s, p, i) ==
  /\ i >= 1
  /\ i + Len(p) - 1 <= Len(s)
  /\ \A k \in 1..Len(p) : LowerChar(s[i + k - 1]) = LowerChar(p[k])

\* p in s
Contains(s, p) == \E i \in 1..Len(s) + 1 : MatchAt(s, p, i)

\* str.endswith(p)
EndsWith(s, p) == Len(s) >= Len(p) /\ MatchAt(s, p, Len(s) - Len(p) + 1)

\* s[i:] with i counted from 1
From(s, i) == SubSeq(s, i, Len(s))

\* s[:n]
Take(s, n) == SubSeq(s, 1, IF n < Len(s) THEN n ELSE Len(s))

\* length of the longest run of characters of class cls starting at s[i]
RECURSIVE RunLen(_, _, _)
RunLen(s, cls, i) ==
  IF i <= Len(s) /\ s[i] \in cls THEN 1 + RunLen(s, cls, i + 1) ELSE 0

\* the run of characters of class cls that starts at s[b]
Run(s, cls, b) == SubSeq(s, b, b + RunLen(s, cls, b) - 1)

\* str.strip()
RECURSIVE LStrip(_)
LStrip(s) ==
  IF s # <<>> /\ s[1] \in SpaceChars THEN LStrip(Tail(s)) ELSE s

RECURSIVE RStrip(_)
RStrip(s) ==
  IF s # <<>> /\ s[Len(s)] \in SpaceChars
    THEN RStrip(SubSeq(s, 1, Len(s) - 1))
    ELSE s

Strip(s) == RStrip(LStrip(s))

\* re.sub(r'[<>:"/\\|?*]', '_', s)
Sanitize(s) ==
  [k \in 1..Len(s) |-> IF s[k] \in ReservedChars THEN "_" ELSE s[k]]

\* re.sub(r'\s+', ' ', s)
CollapseSpaces(s) ==
  LET first(k) == k = 1 \/ s[k - 1] \notin SpaceChars
      marked == [k \in 1..Len(s) |->
                   IF s[k] \notin SpaceChars THEN <<s[k]>>
                   ELSE IF first(k) THEN <<" ">> ELSE <<>>]
      kept == SelectSeq(marked, LAMBDA m : m # <<>>)
  IN  [k \in 1..Len(kept) |-> kept[k][1]]

\* str.replace(p, r), p not empty
RECURSIVE Replace(_, _, _)
Replace(s, p, r) ==
  IF s = <<>> THEN <<>>
  ELSE IF MatchAt(s, p, 1)
    THEN r \o Replace(From(s, Len(p) + 1), p, r)
    ELSE <<s[1]>> \o Replace(Tail(s), p, r)

\* str(n) for a natural number n
RECURSIVE DecStr(_)
DecStr(n) ==
  IF n < 10 THEN <<DigitSeq[n + 1]>>
  ELSE DecStr(n \div 10) \o <<DigitSeq[(n % 10) + 1]>>

\* str.zfill(2)
ZFill2(s) == IF Len(s) < 2 THEN <<"0">> \o s ELSE s

\* the order of characters that str comparison uses, on the characters of
\* the model (ASCII order)
AsciiSeq ==
  <<"\t", "\n", " ", "\"", "%", "&", "'", "(", ")", "*", "-", ".", "/">>
  \o DigitSeq \o <<":", ";", "<", "=", ">", "?">>
  \o UpperSeq \o <<"\\", "_">> \o LowerSeq \o <<"|", "~">>

Ord(c) == CHOOSE k \in 1..Len(AsciiSeq) : AsciiSeq[k] = c

AllChars == { AsciiSeq[k] : k \in 1..Len(AsciiSeq) }

\* a < b for strings
RECURSIVE StrLess(_, _)
StrLess(a, b) ==
  IF b = <<>> THEN FALSE
  ELSE IF a = <<>> THEN TRUE
  ELSE IF a[1] = b[1] THEN StrLess(Tail(a), Tail(b))
  ELSE Ord(a[1]) < Ord(b[1])

\* None
None == <<"None">>

\* str.split(): the words of s
RECURSIVE Words(_)
Words(s) ==
  IF LStrip(s) = <<>> THEN {}
  ELSE {Run(LStrip(s), AllChars \ SpaceChars, 1)}
         \cup Words(From(LStrip(s), 1 + RunLen(LStrip(s), AllChars \ SpaceChars, 1)))

S_pdf == <<".","p","d","f">>

\* if not s.lower().endswith('.pdf'): s += '.pdf'
EnsurePdf(s) == IF ~EndsWith(Lower(s), S_pdf) THEN s \o S_pdf ELSE s

(***************************************************************************)
(* extract_file_id                                                         *)
(***************************************************************************)
S_file_d == <<"/","f","i","l","e","/","d","/">>

S_id_eq == <<"i","d","=">>

\* the patterns list of extract_file_id, in order: lit([a-zA-Z0-9_-]+),
\* followed by / when slash is set
IdPatterns ==
  << [lit |-> S_file_d,        slash |-> FALSE],
     [lit |-> <<"/","d","/">>, slash |-> TRUE],
     [lit |-> S_id_eq,         slash |-> FALSE] >>

\* the pattern matches at k.  The class does not hold '/', so the group is
\* the longest run of class characters
IdPatternAt(url, p, k) ==
  /\ MatchAt(url, p.lit, k)
  /\ LET e == k + Len(p.lit) + RunLen(url, IdChars, k + Len(p.lit)) IN
       /\ e > k + Len(p.lit)
       /\ p.slash => (e <= Len(url) /\ url[e] = "/")

\* re.search(p, url[k - 1:]): the start of the leftmost match, 0 when there
\* is none
RECURSIVE IdPatternFrom(_, _, _)
IdPatternFrom(url, p, k) ==
  IF k > Len(url) THEN 0
  ELSE IF IdPatternAt(url, p, k) THEN k
  ELSE IdPatternFrom(url, p, k + 1)

IdPatternPos(url, p) == IdPatternFrom(url, p, 1)

\* match.group(1) of that search
IdPatternGroup(url, p) == Run(url, IdChars, IdPatternPos(url, p) + Len(p.lit))

\* lines 38-42: the group of the first pattern that matches
RECURSIVE FirstIdPattern(_, _)
FirstIdPattern(url, patterns) ==
  IF patterns = <<>> THEN None
  ELSE IF IdPatternPos(url, Head(patterns)) # 0
    THEN IdPatternGroup(url, Head(patterns))
    ELSE FirstIdPattern(url, Tail(patterns))

\* extract_file_id with the patterns tried in the reverse order
extract_file_id_reversed(url) ==
  FirstIdPattern(url, <<IdPatterns[3], IdPatterns[2], IdPatterns[1]>>)

extract_file_id(url) == FirstIdPattern(url, IdPatterns)

(***************************************************************************)
(* extract_module_info_from_context                                        *)
(***************************************************************************)
S_Module == <<"M","o","d","u","l","e">>

S_Mod == <<"M","o","d">>

S_Module_ == <<"M","o","d","u","l","e","_">>

\* the character class [IVXivx]; under re.IGNORECASE it is the same class
RomanClass == {"I", "V", "X", "i", "v", "x"}

\* the character class [-–] (the en dash is written "~" in the model)
DashClass == {"-", "~"}

\* the alternatives (?:Module|Mod|MODULE|MOD|M)
ModAlts == <<S_Module, S_Mod, S_Module, S_Mod, <<"M">> >>

\* the patterns tried on the link text: the alternatives kws, \s*[:\-]?\s*
\* when sep is set and \s* otherwise, the group (cls+), and \s*[-–] after
\* it when dash is set.  The trailing [^<]* matches anything
LinkTextPatterns ==
  << [kws |-> ModAlts, sep |-> TRUE, cls |-> DigitChars, dash |-> FALSE],
     [kws |-> ModAlts, sep |-> TRUE, cls |-> RomanClass, dash |-> FALSE],
     [kws |-> <<S_Module, S_Mod>>, sep |-> TRUE, cls |-> DigitChars, dash |-> TRUE],
     [kws |-> <<S_Module>>, sep |-> FALSE, cls |-> DigitChars, dash |-> TRUE] >>

\* the module_patterns tried on the text around the identifier
ContextPatterns ==
  << [kws |-> <<S_Module>>, sep |-> TRUE,  cls |-> DigitChars, dash |-> FALSE],
     [kws |-> <<S_Mod>>,    sep |-> TRUE,  cls |-> DigitChars, dash |-> FALSE],
     [kws |-> <<<<"M">>>>,  sep |-> TRUE,  cls |-> DigitChars, dash |-> FALSE],
     [kws |-> <<S_Module>>, sep |-> TRUE,  cls |-> DigitChars, dash |-> FALSE],
     [kws |-> <<S_Module>>, sep |-> FALSE, cls |-> RomanClass, dash |-> FALSE],
     [kws |-> <<S_Mod>>,    sep |-> FALSE, cls |-> RomanClass, dash |-> FALSE],
     [kws |-> << <<"U","n","i","t">> >>, sep |-> TRUE, cls |-> DigitChars, dash |-> FALSE],
     [kws |-> << <<"U","n","i","t">> >>, sep |-> TRUE, cls |-> DigitChars, dash |-> FALSE],
     [kws |-> << <<"L","e","c","t","u","r","e">> >>, sep |-> TRUE, cls |-> DigitChars, dash |-> FALSE],
     [kws |-> << <<"L","e","c","t","u","r","e">> >>, sep |-> TRUE, cls |-> DigitChars, dash |-> FALSE] >>

\* the position after \s*[:\-]?\s* (sep) or after \s* (no sep) from j
AfterSep(s, sep, j) ==
  LET a == j + RunLen(s, SpaceChars, j) IN
    IF sep /\ a <= Len(s) /\ s[a] \in {":", "-"}
      THEN a + 1 + RunLen(s, SpaceChars, a + 1)
      ELSE a

\* the group (cls+) of pattern p starts at b: b, or 0 when the pattern does
\* not match there
ModGroupAt(s, p, b) ==
  LET e == b + RunLen(s, p.cls, b) IN
    IF /\ e > b
       /\ p.dash => LET d == e + RunLen(s, SpaceChars, e) IN
                      d <= Len(s) /\ s[d] \in DashClass
      THEN b
      ELSE 0

\* the start of group 1 when one of the alternatives kws of p matches at k,
\* the first of them that does; 0 when none does
RECURSIVE ModAltsAt(_, _, _, _)
ModAltsAt(s, p, kws, k) ==
  IF kws = <<>> THEN 0
  ELSE IF /\ MatchAtI(s, Head(kws), k)
          /\ ModGroupAt(s, p, AfterSep(s, p.sep, k + Len(Head(kws)))) # 0
    THEN AfterSep(s, p.sep, k + Len(Head(kws)))
    ELSE ModAltsAt(s, p, Tail(kws), k)

\* re.search(p, s, re.IGNORECASE) from position k: the start of group 1 of
\* the leftmost match, 0 when there is none
RECURSIVE ModPatternFrom(_, _, _)
ModPatternFrom(s, p, k) ==
  IF k > Len(s) THEN 0
  ELSE IF ModAltsAt(s, p, p.kws, k) # 0 THEN ModAltsAt(s, p, p.kws, k)
  ELSE ModPatternFrom(s, p, k + 1)

\* roman_map.get(module_num.upper(), module_num): the lower-case keys of
\* the map are never looked up, the key is upper-cased first
RomanMapGet(num) ==
  LET u == Upper(num) IN
    CASE u = <<"I">>         -> <<"1">>
      [] u = <<"I","I">>     -> <<"2">>
      [] u = <<"I","I","I">> -> <<"3">>
      [] u = <<"I","V">>     -> <<"4">>
      [] u = <<"V">>         -> <<"5">>
      [] OTHER               -> num

\* f"Module_{module_num.zfill(2)}"
ModuleName(num) == S_Module_ \o ZFill2(RomanMapGet(num))

\* the first pattern of ps that matches s names the module; None otherwise
RECURSIVE FirstModule(_, _)
FirstModule(s, ps) ==
  IF ps = <<>> THEN None
  ELSE IF ModPatternFrom(s, Head(ps), 1) # 0
    THEN ModuleName(Run(s, Head(ps).cls, ModPatternFrom(s, Head(ps), 1)))
    ELSE FirstModule(s, Tail(ps))

\* a, or b when a is None
OrElse(a, b) == IF a # None THEN a ELSE b

\* clean_context is the text soup.get_text() gives for the window around
\* the identifier, or None when html_content.find(file_id) is -1
extract_module_info_from_context(clean_context, link_text) ==
  OrElse(IF link_text # <<>> THEN FirstModule(link_text, LinkTextPatterns) ELSE None,
         IF clean_context # None
           THEN FirstModule(clean_context, ContextPatterns)
           ELSE None)

(***************************************************************************)
(* The names download_drive_pdf takes from the server: the                 *)
(* Content-Disposition header and the Drive view page.                     *)
(***************************************************************************)
S_filename == <<"f","i","l","e","n","a","m","e">>

S_GoogleDrive == <<" ","-"," ","G","o","o","g","l","e"," ","D","r","i","v","e">>

S_Document_ == <<"D","o","c","u","m","e","n","t","_">>

\* urllib.parse.unquote, on the escapes the model's server sends
RECURSIVE unquote(_)
unquote(s) ==
  IF s = <<>> THEN <<>>
  ELSE IF MatchAt(s, <<"%","2","0">>, 1) THEN <<" ">> \o unquote(From(s, 4))
  ELSE IF MatchAt(s, <<"%","2","F">>, 1) THEN <<"/">> \o unquote(From(s, 4))
  ELSE <<s[1]>> \o unquote(Tail(s))

\* the two patterns tried on the header:
\*   filename\*?=["\']?(?:UTF-8[\'"]*)?([^"\';]+)   (line 159, unquoted)
\*   filename=["\']?([^"\']+)["\']?                 (line 163)
CdPatterns ==
  << [star |-> TRUE,  cls |-> AllChars \ (QuoteChars \cup {";"})],
     [star |-> FALSE, cls |-> AllChars \ QuoteChars] >>

\* the position after filename\*?= (star) or filename= matched at k, 0
\* when it does not match there
CdAfterEq(h, p, k) ==
  IF ~MatchAtI(h, S_filename, k) THEN 0
  ELSE IF p.star /\ MatchAt(h, <<"*","=">>, k + Len(S_filename))
    THEN k + Len(S_filename) + 2
  ELSE IF MatchAt(h, <<"=">>, k + Len(S_filename))
    THEN k + Len(S_filename) + 1
  ELSE 0

\* the position after ["\']? from c, the quote taken
AfterQuote(h, c) == IF c <= Len(h) /\ h[c] \in QuoteChars THEN c + 1 ELSE c

\* the position after (?:UTF-8[\'"]*)? from j, the part taken
AfterUtf8(h, j) ==
  IF MatchAtI(h, <<"U","T","F","-","8">>, j)
    THEN j + 5 + RunLen(h, QuoteChars, j + 5)
    ELSE j

\* where group 1 may start after the = at c - 1: the optional parts are
\* greedy and given up in the order the regex engine gives them up
CdStarts(h, p, c) ==
  IF p.star
    THEN <<AfterUtf8(h, AfterQuote(h, c)), AfterQuote(h, c), AfterUtf8(h, c), c>>
    ELSE <<AfterQuote(h, c), c>>

\* the first of the positions starts where a character of cls stands, 0
\* when there is none
RECURSIVE FirstStart(_, _, _)
FirstStart(h, cls, starts) ==
  IF starts = <<>> THEN 0
  ELSE IF Head(starts) <= Len(h) /\ h[Head(starts)] \in cls THEN Head(starts)
  ELSE FirstStart(h, cls, Tail(starts))

\* re.search(p, h, re.IGNORECASE) from position k: the start of group 1 of
\* the leftmost match, 0 when there is none
RECURSIVE CdPatternFrom(_, _, _)
CdPatternFrom(h, p, k) ==
  IF k > Len(h) THEN 0
  ELSE IF /\ CdAfterEq(h, p, k) # 0
          /\ FirstStart(h, p.cls, CdStarts(h, p, CdAfterEq(h, p, k))) # 0
    THEN FirstStart(h, p.cls, CdStarts(h, p, CdAfterEq(h, p, k)))
  ELSE CdPatternFrom(h, p, k + 1)

\* lines 155-165: original_filename out of the content-disposition header
ContentDispositionName(h) ==
  IF ~Contains(h, S_filename \o <<"=">>) THEN None
  ELSE IF CdPatternFrom(h, CdPatterns[1], 1) # 0
    THEN unquote(Run(h, CdPatterns[1].cls, CdPatternFrom(h, CdPatterns[1], 1)))
  ELSE IF CdPatternFrom(h, CdPatterns[2], 1) # 0
    THEN Run(h, CdPatterns[2].cls, CdPatternFrom(h, CdPatterns[2], 1))
  ELSE None

\* lines 58-61: the name made of the title of the view page
TitleFilename(filename) ==
  IF EndsWith(filename, S_pdf) \/ Contains(Lower(filename), S_pdf)
    THEN filename
    ELSE filename \o S_pdf

\* lines 68-70: the name made of og:title
OgFilename(filename) ==
  IF ~EndsWith(filename, S_pdf) THEN filename \o S_pdf ELSE filename

\* get_drive_filename on the answer of the view endpoint: view.raises when
\* the GET raises, view.title and view.og the text of the title tag and the
\* og:title content, None when the page has none
get_drive_filename(view) ==
  IF view.raises THEN None
  ELSE IF view.title # None /\ Contains(Strip(view.title), S_GoogleDrive)
    THEN TitleFilename(
           Sanitize(Strip(Replace(Strip(view.title), S_GoogleDrive, <<>>))))
  ELSE IF view.og # None /\ view.og # <<>>
    THEN OgFilename(Sanitize(Strip(view.og)))
  ELSE None

\* re.sub(r'\.pdf\.pdf$', '.pdf', s, flags=re.IGNORECASE)
UndoublePdf(s) ==
  IF EndsWith(Lower(s), S_pdf \o S_pdf)
    THEN SubSeq(s, 1, Len(s) - 2 * Len(S_pdf)) \o S_pdf
    ELSE s

\* lines 170-176: the stored name made of a server-provided name
ServerFilename(original_filename) ==
  Sanitize(EnsurePdf(UndoublePdf(unquote(original_filename))))

\* line 182: Document_{int(time.time()) % 10000}.pdf
TimeModulus == 10000

TimeName(now) == S_Document_ \o DecStr(now % TimeModulus)

\* original_filename after lines 155-168: the name of the header, or the
\* result of get_drive_filename when the header gave none
OriginalFilename(cd_name, meta) ==
  IF cd_name # None /\ cd_name # <<>> THEN cd_name ELSE meta

\* lines 155-182: the tier of the chain that names the file
ResolveStrategy(cd_name, meta, clean_context, link_text) ==
  IF cd_name # None /\ cd_name # <<>> THEN "header"
  ELSE IF meta # None /\ meta # <<>> THEN "metadata"
  ELSE IF extract_module_info_from_context(clean_context, link_text) # None
    THEN "module"
  ELSE "time"

\* ResolveFilename without the module tier
ResolveFilename_no_module(cd_name, meta, clean_context, link_text, now) ==
  IF OriginalFilename(cd_name, meta) \notin {None, <<>>}
    THEN ServerFilename(OriginalFilename(cd_name, meta))
    ELSE TimeName(now) \o S_pdf

\* lines 170-182: the filename download_drive_pdf chooses
ResolveFilename(cd_name, meta, clean_context, link_text, now) ==
  IF OriginalFilename(cd_name, meta) \notin {None, <<>>}
    THEN ServerFilename(OriginalFilename(cd_name, meta))
    ELSE OrElse(extract_module_info_from_context(clean_context, link_text),
                TimeName(now)) \o S_pdf

(***************************************************************************)
(* find_drive_links_on_page                                                *)
(*                                                                         *)
(* A page is [ok, lead, anchors, raw]: ok is FALSE when the GET raises or  *)
(* the status is not 2xx, lead is the text before the anchors, anchors the *)
(* <a> elements in document order, each [href, text, button] with text     *)
(* what get_text(strip=True) gives and button whether the class holds      *)
(* elementor-button, and raw the (file_id, link_text) pairs the four       *)
(* regular expressions of the text scan find, in the order found.          *)
(***************************************************************************)
S_drive_host == <<"d","r","i","v","e",".","g","o","o","g","l","e",".","c","o","m">>

S_file_url == <<"h","t","t","p","s",":","/","/">> \o S_drive_host \o S_file_d

\* f"https://drive.google.com/file/d/{file_id}/view"
DriveUrl(file_id) == S_file_url \o file_id \o <<"/","v","i","e","w">>

\* (drive_url, file_id, link_text)
Link(file_id, text) == [url |-> DriveUrl(file_id), file_id |-> file_id, text |-> text]

\* lines 371-373 and 384-386: the identifier of a Drive href, None for any
\* other href
DriveId(href) ==
  IF Contains(href, S_drive_host) THEN extract_file_id(href) ELSE None

\* CASE 1: the elementor buttons, no check for duplicates
RECURSIVE ButtonLinks(_)
ButtonLinks(anchors) ==
  IF anchors = <<>> THEN <<>>
  ELSE (IF Head(anchors).button /\ DriveId(Head(anchors).href) # None
          THEN <<Link(DriveId(Head(anchors).href), Head(anchors).text)>>
          ELSE <<>>)
       \o ButtonLinks(Tail(anchors))

\* drive_links holds the pair (file_id, text)
Listed(drive_links, file_id, text) ==
  \E k \in 1..Len(drive_links) :
    drive_links[k].file_id = file_id /\ drive_links[k].text = text

\* CASE 2: every anchor, unless the same (file_id, link_text) is listed
RECURSIVE AnchorLinks(_, _)
AnchorLinks(anchors, drive_links) ==
  IF anchors = <<>> THEN drive_links
  ELSE IF /\ DriveId(Head(anchors).href) # None
          /\ ~Listed(drive_links, DriveId(Head(anchors).href), Head(anchors).text)
    THEN AnchorLinks(Tail(anchors),
           Append(drive_links,
                  Link(DriveId(Head(anchors).href), Head(anchors).text)))
    ELSE AnchorLinks(Tail(anchors), drive_links)

\* CASE 3: the matches of the text scan, one per file_id
RECURSIVE RawLinks(_, _)
RawLinks(raw, drive_links) ==
  IF raw = <<>> THEN drive_links
  ELSE IF \E k \in 1..Len(drive_links) : drive_links[k].file_id = Head(raw).file_id
    THEN RawLinks(Tail(raw), drive_links)
    ELSE RawLinks(Tail(raw),
           Append(drive_links,
                  Link(Head(raw).file_id,
                       IF Head(raw).text # <<>>
                         THEN Head(raw).text
                         ELSE S_Document_ \o Take(Head(raw).file_id, 8))))

\* f"{file_id}_{text}"
Combination(link) == link.file_id \o <<"_">> \o link.text

\* UniqueLinks that drops nothing
UniqueLinks_keeps_all(drive_links, seen) == drive_links

\* lines 429-437: the first link of every combination
RECURSIVE UniqueLinks(_, _)
UniqueLinks(drive_links, seen) ==
  IF drive_links = <<>> THEN <<>>
  ELSE IF Combination(Head(drive_links)) \in seen
    THEN UniqueLinks(Tail(drive_links), seen)
    ELSE <<Head(drive_links)>>
           \o UniqueLinks(Tail(drive_links),
                          seen \cup {Combination(Head(drive_links))})

\* list.sort(key=lambda x: x[2].lower()): a stable sort
RECURSIVE InsertLink(_, _)
InsertLink(sorted, l) ==
  IF sorted = <<>> THEN <<l>>
  ELSE IF StrLess(Lower(l.text), Lower(Head(sorted).text))
    THEN <<l>> \o sorted
    ELSE <<Head(sorted)>> \o InsertLink(Tail(sorted), l)

RECURSIVE SortLinks(_)
SortLinks(ls) ==
  IF ls = <<>> THEN <<>>
  ELSE InsertLink(SortLinks(SubSeq(ls, 1, Len(ls) - 1)), ls[Len(ls)])

\* the text scan runs whatever the anchors gave
ScanIfNone_always(anchored, raw) == RawLinks(raw, anchored)

\* line 394: the text scan runs only when CASE 1 and CASE 2 found nothing
ScanIfNone(anchored, raw) ==
  IF anchored = <<>> THEN RawLinks(raw, <<>>) ELSE anchored

\* the drive_links find_drive_links_on_page returns; <<>> when the page
\* cannot be fetched
find_drive_links_on_page(pg) ==
  IF ~pg.ok THEN <<>>
  ELSE SortLinks(UniqueLinks(
         ScanIfNone(AnchorLinks(pg.anchors, ButtonLinks(pg.anchors)), pg.raw), {}))

\* the html_content it returns, as the text BeautifulSoup.get_text() gives
\* for the window around an identifier: the pages of the model are shorter
\* than the window (500 characters before, 300 after), so it is the text of
\* the whole page, one line per element.  "" when the page cannot be fetched
RECURSIVE AnchorText(_)
AnchorText(anchors) ==
  IF anchors = <<>> THEN <<>>
  ELSE <<"\n">> \o Head(anchors).text \o AnchorText(Tail(anchors))

PageText(pg) == IF pg.ok THEN pg.lead \o AnchorText(pg.anchors) ELSE <<>>

\* html_content.find(file_id) != -1, for the html of a page
HtmlHolds(pg, file_id) ==
  /\ pg.ok
  /\ \/ \E k \in 1..Len(pg.anchors) : Contains(pg.anchors[k].href, file_id)
     \/ Contains(PageText(pg), file_id)
     \/ \E k \in 1..Len(pg.raw) : Contains(pg.raw[k].file_id, file_id)

\* the clean_context of extract_module_info_from_context
CleanContext(pg, file_id) ==
  IF HtmlHolds(pg, file_id) THEN PageText(pg) ELSE None

(***************************************************************************)
(* scrape_subject: the links of the subject and the name each is looked up *)
(* under before it is downloaded.                                          *)
(***************************************************************************)
\* common_words of is_similar_subject, in order
CommonWords ==
  << <<"a","n","d">>, <<"t","h","e">>, <<"i","n">>, <<"o","f">>,
     <<"f","o","r">>, <<"t","o">>, <<"&">>, <<"-">>, <<"_">> >>

RECURSIVE ReplaceEach(_, _)
ReplaceEach(text, words) ==
  IF words = <<>> THEN text
  ELSE ReplaceEach(Replace(text, Head(words), <<" ">>), Tail(words))

\* re.sub(r'[^a-z0-9\s]', '', text)
KeepAlnum(s) ==
  SelectSeq(s, LAMBDA c : c \in LowerChars \cup DigitChars \cup SpaceChars)

\* clean_text of is_similar_subject
clean_text(text) ==
  Strip(CollapseSpaces(KeepAlnum(ReplaceEach(Lower(text), CommonWords))))

\* lines 227-239, on the cleaned names
Similar(clean1, clean2) ==
  \/ Cardinality(Words(clean1) \cap Words(clean2)) >= 2
  \/ /\ Contains(clean2, clean1) \/ Contains(clean1, clean2)
     /\ Len(clean1) > 3
     /\ Len(clean2) > 3

is_similar_subject(subject1, subject2) ==
  Similar(clean_text(subject1), clean_text(subject2))

\* lines 471-473: the link belongs to the subject
BelongsTo(subject_name, link_text) ==
  \/ Contains(Lower(link_text), Lower(subject_name))
  \/ Contains(Lower(subject_name), Lower(link_text))
  \/ is_similar_subject(subject_name, link_text)

\* lines 462-478: the links that belong to the subject, all of them when
\* none does
FilteredLinks(drive_links, subject_name) ==
  IF \E k \in 1..Len(drive_links) : BelongsTo(subject_name, drive_links[k].text)
    THEN SelectSeq(drive_links, LAMBDA l : BelongsTo(subject_name, l.text))
    ELSE drive_links

\* re.sub(r'\s+', ' ', re.sub(r'[<>:"/\\|?*]', '_', s)).strip()
CleanName(s) == Strip(CollapseSpaces(Sanitize(s)))

\* lines 497-498: if len(s) > 100: s = s[:95] + '.pdf'
MaxSubjectFile == 100

ClipSubject(s) ==
  IF Len(s) > MaxSubjectFile THEN Take(s, MaxSubjectFile - 5) \o S_pdf ELSE s

\* lines 489-498: the name of the single document of a subject
SubjectFilename(subject_name) == ClipSubject(EnsurePdf(CleanName(subject_name)))

\* lines 525-526: if len(s) > 50: s = s[:47] + '...'
MaxLinkText == 50

ClipLinkText(s) ==
  IF Len(s) > MaxLinkText THEN Take(s, MaxLinkText - 3) \o <<".",".",".">> ELSE s

\* lines 521-529: the name made of the link text, or of the position n
LinkTextFilename(link_text, n) ==
  IF link_text # <<>> /\ Len(link_text) > 3
    THEN ClipLinkText(CleanName(link_text))
    ELSE S_Document_ \o ZFill2(DecStr(n))

\* lines 517-535: the name of document number n of several
LinkFilename(clean_context, link_text, n) ==
  Sanitize(EnsurePdf(
    OrElse(extract_module_info_from_context(clean_context, link_text),
           LinkTextFilename(link_text, n)) \o S_pdf))

(***************************************************************************)
(* The inputs of the model: the pages a subject URL may serve, the answers *)
(* of the Drive endpoints for each identifier, the subject names and the   *)
(* files the subject directory may hold before the first run.              *)
(***************************************************************************)
Id1 == <<"A","B","C","1","2","3">>

Id2 == <<"Z","z","9">>

Ids == {Id1, Id2}

\* https://drive.google.com/open?id={file_id}
OpenUrl(file_id) ==
  <<"h","t","t","p","s",":","/","/">> \o S_drive_host
    \o <<"/","o","p","e","n","?">> \o S_id_eq \o file_id

Anchor(href, text, button) == [href |-> href, text |-> text, button |-> button]

Page(anchors, raw) == [ok |-> TRUE, lead |-> <<>>, anchors |-> anchors, raw |-> raw]

F_notes_text == <<"N","o","t","e","s",".","p","d","f">>

\* two documents of the same module: "Module 1 Notes" and "Slides"
PgSameModule ==
  Page(<<Anchor(DriveUrl(Id1), <<"M","o","d","u","l","e"," ","1"," ","N","o","t","e","s">>, FALSE),
         Anchor(DriveUrl(Id2), <<"S","l","i","d","e","s">>, FALSE)>>, <<>>)

Pages ==
  { \* one anchor, the link text names the module: "Module 2 - Arrays"
    Page(<<Anchor(DriveUrl(Id1),
                  <<"M","o","d","u","l","e"," ","2"," ","-"," ","A","r","r","a","y","s">>,
                  FALSE)>>, <<>>),
    \* two documents, two modules: "Module 1" and "Module 2"
    Page(<<Anchor(DriveUrl(Id1), <<"M","o","d","u","l","e"," ","1">>, FALSE),
           Anchor(OpenUrl(Id2), <<"M","o","d","u","l","e"," ","2">>, FALSE)>>, <<>>),
    PgSameModule,
    \* one document linked three times: the same button "Download" at the
    \* top and at the bottom of the page, and a text link "Module 3"
    Page(<<Anchor(DriveUrl(Id1), <<"D","o","w","n","l","o","a","d">>, TRUE),
           Anchor(OpenUrl(Id1), <<"M","o","d","u","l","e"," ","3">>, FALSE),
           Anchor(DriveUrl(Id1), <<"D","o","w","n","l","o","a","d">>, TRUE)>>, <<>>),
    \* two documents without a module number: "Syllabus" and "PDF"
    Page(<<Anchor(DriveUrl(Id1), <<"S","y","l","l","a","b","u","s">>, FALSE),
           Anchor(DriveUrl(Id2), <<"P","D","F">>, FALSE)>>, <<>>),
    \* two documents, the text of the first is a file name: "Notes.pdf"
    Page(<<Anchor(DriveUrl(Id1), F_notes_text, FALSE),
           Anchor(DriveUrl(Id2), <<"P","D","F">>, FALSE)>>, <<>>),
    \* no anchor, the identifier only in the page source
    Page(<<>>, <<[file_id |-> Id1, text |-> <<>>]>>),
    \* no reference at all
    Page(<<>>, <<>>),
    \* the page cannot be fetched
    [ok |-> FALSE, lead |-> <<>>, anchors |-> <<>>, raw |-> <<>>] }

\* the subject pages of the model with the names of their subjects
Subjects ==
  { [page |-> pg, name |-> <<"A","l","g","o","r","i","t","h","m","s">>] : pg \in Pages }
  \cup { [page |-> PgSameModule, name |-> <<"N","o","t","e","s">>] }

\* the identifiers a page refers to
PageIds(pg) ==
  { find_drive_links_on_page(pg)[k].file_id :
      k \in 1..Len(find_drive_links_on_page(pg)) }

S_pdf_magic == <<"%","P","D","F">>

S_warning == <<"G","o","o","g","l","e"," ","D","r","i","v","e"," ","-"," ","V","i","r","u","s"," ","s","c","a","n"," ","w","a","r","n","i","n","g">>

\* confirm=([a-zA-Z0-9_-]+)
ConfirmPattern == [lit |-> <<"c","o","n","f","i","r","m","=">>, slash |-> FALSE]

\* a response of the download endpoint: raises when the GET raises, text
\* the body (response.text), cd the content-disposition header, chunks the
\* number of chunks iter_content yields
Response(text, cd, chunks) ==
  [raises |-> FALSE, text |-> text, cd |-> cd, chunks |-> chunks]

RaisingResponse == [raises |-> TRUE, text |-> <<>>, cd |-> <<>>, chunks |-> 0]

PdfResponse(id, cd) == Response(S_pdf_magic \o <<"-">> \o id, cd, 2)

\* an error page: <html>quota
HtmlResponse == Response(<<"<","h","t","m","l",">","q","u","o","t","a">>, <<>>, 1)

\* the warning page with confirm=t0k in it
WarningResponse ==
  Response(S_warning \o <<" ">> \o ConfirmPattern.lit \o <<"t","0","k">>, <<>>, 1)

\* the view endpoint does not answer
NoView == [raises |-> TRUE, title |-> None, og |-> None]

Answers(first, second, view) == [first |-> first, second |-> second, view |-> view]

\* what the server may answer for identifier id
Profiles(id) ==
  << Answers(PdfResponse(id, <<>>), RaisingResponse, NoView),
     \* content-disposition: attachment; filename="notes.pdf"
     Answers(PdfResponse(id, <<"a","t","t","a","c","h","m","e","n","t",";"," ","f","i","l","e","n","a","m","e","=","\"","n","o","t","e","s",".","p","d","f","\"">>),
             RaisingResponse, NoView),
     Answers(HtmlResponse, RaisingResponse, NoView),
     \* <title>Arrays - Google Drive</title>
     Answers(PdfResponse(id, <<>>), RaisingResponse,
             [raises |-> FALSE,
              title |-> <<"A","r","r","a","y","s">> \o S_GoogleDrive,
              og |-> None]),
     Answers(WarningResponse, PdfResponse(id, <<>>), NoView),
     Answers(WarningResponse, HtmlResponse, NoView),
     Answers(WarningResponse, RaisingResponse, NoView),
     Answers(Response(S_warning, <<>>, 1), RaisingResponse, NoView),
     Answers(RaisingResponse, RaisingResponse, NoView),
     \* the view page is a sign-in page: <title>Sign in</title>
     Answers(PdfResponse(id, <<>>), RaisingResponse,
             [raises |-> FALSE, title |-> <<"S","i","g","n"," ","i","n">>, og |-> None]) >>

\* the profiles tried for the second identifier of a page
MaxProfiles2 == 3

\* scrape_subject is run MaxRuns times on the same directory
MaxRuns == 2

\* the seconds int(time.time()) advances during a time.sleep(1.5): 1..MaxTick
MaxTick == 1

\* the bytes of a file: data names the body, got of total chunks are written
File(data, got, total) == [data |-> data, got |-> got, total |-> total]

F_notes == <<"n","o","t","e","s",".","p","d","f">>

\* the directory before a call: empty, or with an older notes.pdf
InitialDirs ==
  { <<>>, [n \in {F_notes} |-> File(S_pdf_magic \o <<"-","o","l","d">>, 1, 1)] }

(***************************************************************************)
(* The state.                                                              *)
(***************************************************************************)
VARIABLES
  page,               \* what subject_url serves
  server,             \* what the Drive endpoints answer, per identifier
  subject_name,
  fs,                 \* subject_dir: file name -> bytes
  clock,              \* int(time.time())
  run,                \* the number of the current run of scrape_subject
  pc,                 \* where the run is
  drive_links,        \* what find_drive_links_on_page returned to the run
  filtered_drive_links,
  i,                  \* the position in filtered_drive_links, from 1
  save_path,          \* the path looked up for reference i
  downloaded_count,
  call,               \* the frame of download_drive_pdf
  net,                \* the requests sent so far
  log                 \* how each reference was handled

vars ==
  <<page, server, subject_name, fs, clock, run, pc, drive_links,
    filtered_drive_links, i, save_path, downloaded_count, call, net, log>>

\* the locals of scrape_subject a call of download_drive_pdf leaves alone
locals == <<drive_links, filtered_drive_links>>

inputs == <<page, server, subject_name>>

\* no call of download_drive_pdf in progress
NoCall ==
  [url |-> <<>>, save_path |-> <<>>, clean_context |-> None, link_text |-> <<>>,
   file_id |-> None, response |-> RaisingResponse, filename |-> None,
   strategy |-> "none", written |-> 0, before |-> <<>>, direct |-> FALSE]

Request(kind, file_id, token) ==
  [kind |-> kind, file_id |-> file_id, token |-> token, run |-> run, idx |-> i]

\* Exists looking for the name with the extension doubled
Exists_doubled(name) == (name \o S_pdf) \in DOMAIN fs

\* os.path.exists(os.path.join(subject_dir, name))
Exists(name) == name \in DOMAIN fs

\* the file at name holds content
WriteFile(dir, name, content) ==
  [n \in DOMAIN dir \cup {name} |-> IF n = name THEN content ELSE dir[n]]

\* f.read(4) of a file
Header(content) == IF content.got = 0 THEN <<>> ELSE Take(content.data, 4)

Init ==
  /\ \E sb \in Subjects :
       /\ page = sb.page
       /\ subject_name = sb.name
  /\ \E sv \in [Ids -> 1..Len(Profiles(Id1))] :
       /\ \A id \in Ids \ PageIds(page) : sv[id] = 1
       /\ sv[Id2] <= MaxProfiles2
       /\ server = [id \in Ids |-> Profiles(id)[sv[id]]]
  /\ fs = <<>>
  /\ clock = 0
  /\ run = 1
  /\ pc = "idle"
  /\ drive_links = <<>>
  /\ filtered_drive_links = <<>>
  /\ i = 0
  /\ save_path = <<>>
  /\ downloaded_count = 0
  /\ call = NoCall
  /\ net = <<>>
  /\ log = <<>>

(***************************************************************************)
(* scrape_subject                                                          *)
(***************************************************************************)
\* the name scrape_subject looks up for reference n of links, <<>> past
\* the last one
SavePath(links, n) ==
  IF n > Len(links) THEN <<>>
  ELSE IF Len(links) = 1
    THEN SubjectFilename(subject_name)
    ELSE LinkFilename(CleanContext(page, links[n].file_id), links[n].text, n)

\* lines 484-536: the loop starts on the links of the subject
StartLoop(links) ==
  /\ filtered_drive_links' = links
  /\ i' = 1
  /\ save_path' = SavePath(links, 1)
  /\ pc' = "loop"

\* lines 458-481: no link, or the links filtered by the subject name
Found(links) ==
  /\ drive_links' = links
  /\ IF links = <<>>
       THEN /\ filtered_drive_links' = <<>>
            /\ i' = 0
            /\ save_path' = <<>>
            /\ pc' = "done"
       ELSE StartLoop(FilteredLinks(links, subject_name))

\* lines 452-481: fetch the page, find the links, keep those of the subject
ScrapeStart ==
  /\ pc = "idle"
  /\ net' = Append(net, [kind |-> "page", file_id |-> None, token |-> None,
                         run |-> run, idx |-> 0])
  /\ Found(find_drive_links_on_page(page))
  /\ downloaded_count' = 0
  /\ UNCHANGED <<inputs, fs, clock, run, call, log>>

\* reference i is handled: the next one, or the end of the loop
Advance ==
  /\ i' = i + 1
  /\ save_path' = SavePath(filtered_drive_links, i + 1)
  /\ pc' = IF i < Len(filtered_drive_links) THEN "loop" ELSE "done"

\* lines 504, 508, 540 and 547-548: the single document sets the count,
\* one of several adds to it
Count(result) ==
  downloaded_count' =
    IF Len(filtered_drive_links) = 1
      THEN (IF result THEN 1 ELSE 0)
      ELSE downloaded_count + (IF result THEN 1 ELSE 0)

\* lines 500-504 and 536-541: the file is there, the reference is skipped
SkipExisting ==
  /\ pc = "loop"
  /\ Exists(save_path)
  /\ Count(TRUE)
  /\ log' = Append(log,
       [run |-> run, idx |-> i, file_id |-> filtered_drive_links[i].file_id,
        text |-> filtered_drive_links[i].text, lookup |-> save_path,
        outcome |-> "skipped", filename |-> None, strategy |-> "none",
        valid |-> FALSE, error |-> "none"])
  /\ Advance
  /\ UNCHANGED <<inputs, fs, clock, run, locals, call, net>>

\* lines 505-507 and 543-545: time.sleep(1.5), then download_drive_pdf
StartDownload ==
  /\ pc = "loop"
  /\ ~Exists(save_path)
  /\ \E d \in 1..MaxTick : clock' = clock + d
  /\ call' = [NoCall EXCEPT
                !.url = filtered_drive_links[i].url,
                !.save_path = save_path,
                !.clean_context = CleanContext(page, filtered_drive_links[i].file_id),
                !.link_text = filtered_drive_links[i].text,
                !.before = fs]
  /\ pc' = "dl_begin"
  /\ UNCHANGED <<inputs, fs, run, locals, i, save_path, downloaded_count, net, log>>

(***************************************************************************)
(* download_drive_pdf                                                      *)
(***************************************************************************)
\* Drive answers an identifier it does not know with an error page
ServerAnswers(file_id) ==
  IF file_id \in DOMAIN server
    THEN server[file_id]
    ELSE Answers(HtmlResponse, RaisingResponse, NoView)

\* the body starts with the PDF signature
IsPdf(response) == Take(response.text, 4) = S_pdf_magic

\* Return with a failure that ends the loop of scrape_subject
Return_aborts(result, error) ==
  /\ log' = Append(log,
       [run |-> run, idx |-> i, file_id |-> call'.file_id,
        text |-> call.link_text, lookup |-> call.save_path,
        outcome |-> IF result THEN "stored" ELSE "failed",
        filename |-> call'.filename, strategy |-> call'.strategy,
        valid |-> ~call'.response.raises /\ IsPdf(call'.response),
        error |-> error])
  /\ IF call.direct
       THEN /\ pc' = "returned"
            /\ UNCHANGED <<i, save_path, downloaded_count>>
       ELSE IF result
         THEN Advance /\ Count(result)
         ELSE /\ pc' = "done"
              /\ UNCHANGED <<i, save_path>>
              /\ Count(result)

\* the call returns result to its caller: scrape_subject counts it and goes
\* on with the next reference (lines 508 and 547-548)
Return(result, error) ==
  /\ log' = Append(log,
       [run |-> run, idx |-> i, file_id |-> call'.file_id,
        text |-> call.link_text, lookup |-> call.save_path,
        outcome |-> IF result THEN "stored" ELSE "failed",
        filename |-> call'.filename, strategy |-> call'.strategy,
        valid |-> ~call'.response.raises /\ IsPdf(call'.response),
        error |-> error])
  /\ IF call.direct
       THEN /\ pc' = "returned"
            /\ UNCHANGED <<i, save_path, downloaded_count>>
       ELSE Advance /\ Count(result)

\* the call returns False before it opens a file (lines 141 and 206-208)
Fail(file_id, requests, error) ==
  /\ call' = [call EXCEPT !.file_id = file_id]
  /\ net' = requests
  /\ Return(FALSE, error)

\* NoFileId that lets a missing identifier pass
NoFileId_never(file_id) == FALSE

\* line 139: if not file_id
NoFileId(file_id) == file_id = None \/ file_id = <<>>

\* lines 148-150: the body is the warning page and holds a confirm token
Confirms(text) == Contains(text, S_warning) /\ IdPatternPos(text, ConfirmPattern) # 0

\* Chosen writing to the save_path of the caller
Chosen_keeps_save_path(file_id, response, cd_name, meta, requests) ==
  /\ call' = [call EXCEPT
                !.file_id = file_id,
                !.response = response,
                !.filename = call.save_path,
                !.strategy = ResolveStrategy(cd_name, meta, call.clean_context,
                                             call.link_text)]
  /\ net' = requests
  /\ pc' = "dl_open"
  /\ UNCHANGED <<i, save_path, downloaded_count, log>>

\* lines 170-185: the filename is chosen
Chosen(file_id, response, cd_name, meta, requests) ==
  /\ call' = [call EXCEPT
                !.file_id = file_id,
                !.response = response,
                !.filename = ResolveFilename(cd_name, meta, call.clean_context,
                                             call.link_text, clock),
                !.strategy = ResolveStrategy(cd_name, meta, call.clean_context,
                                             call.link_text)]
  /\ net' = requests
  /\ pc' = "dl_open"
  /\ UNCHANGED <<i, save_path, downloaded_count, log>>

\* Named with a lookup whose failure ends the call
Named_lookup_aborts(file_id, response, cd_name, view, requests) ==
  IF cd_name # None /\ cd_name # <<>>
    THEN Chosen(file_id, response, cd_name, None, requests)
  ELSE IF get_drive_filename(view) = None
    THEN Fail(file_id, Append(requests, Request("view", file_id, None)), "transport")
  ELSE Chosen(file_id, response, cd_name, get_drive_filename(view),
              Append(requests, Request("view", file_id, None)))

\* Named asking the view endpoint whatever the header gave
Named_asks_first(file_id, response, cd_name, view, requests) ==
  Chosen(file_id, response, cd_name, get_drive_filename(view),
         Append(requests, Request("view", file_id, None)))

\* lines 155-168: the name of the header; get_drive_filename asks the view
\* endpoint only when the header gave none
Named(file_id, response, cd_name, view, requests) ==
  IF cd_name # None /\ cd_name # <<>>
    THEN Chosen(file_id, response, cd_name, None, requests)
    ELSE Chosen(file_id, response, cd_name, get_drive_filename(view),
                Append(requests, Request("view", file_id, None)))

\* the final response is there, unless its GET raised
Answered(file_id, response, view, requests) ==
  IF response.raises
    THEN Fail(file_id, requests, "transport")
    ELSE Named(file_id, response, ContentDispositionName(response.cd), view, requests)

\* Requested confirming a second time
Requested_retries(file_id, answers, requests) ==
  IF ~answers.first.raises /\ Confirms(answers.first.text)
    THEN Answered(file_id, answers.second, answers.view,
           Append(Append(requests,
                         Request("confirm", file_id,
                                 IdPatternGroup(answers.first.text, ConfirmPattern))),
                  Request("confirm", file_id,
                          IdPatternGroup(answers.first.text, ConfirmPattern))))
    ELSE Answered(file_id, answers.first, answers.view, requests)

\* lines 146-153: the GET, and the confirming GET when the answer is the
\* warning page
Requested(file_id, answers, requests) ==
  IF ~answers.first.raises /\ Confirms(answers.first.text)
    THEN Answered(file_id, answers.second, answers.view,
           Append(requests,
                  Request("confirm", file_id,
                          IdPatternGroup(answers.first.text, ConfirmPattern))))
    ELSE Answered(file_id, answers.first, answers.view, requests)

\* lines 139-143: no identifier, no request
Identified(file_id) ==
  IF NoFileId(file_id)
    THEN /\ call' = call
         /\ net' = net
         /\ Return(FALSE, "identifier")
    ELSE Requested(file_id, ServerAnswers(file_id),
                   Append(net, Request("download", file_id, None)))

\* lines 137-185: the identifier, the GET (and the confirming GET), the
\* choice of the filename
DlBegin ==
  /\ pc = "dl_begin"
  /\ Identified(extract_file_id(call.url))
  /\ UNCHANGED <<inputs, fs, clock, run, locals>>

\* line 187: open(new_save_path, 'wb') creates the file or empties it
DlOpen ==
  /\ pc = "dl_open"
  /\ fs' = WriteFile(fs, call.filename,
                     File(call.response.text, 0, call.response.chunks))
  /\ pc' = "dl_write"
  /\ UNCHANGED <<inputs, clock, run, locals, i, save_path, downloaded_count, call, net, log>>

\* lines 188-190: one chunk of the body is written
DlWrite ==
  /\ pc = "dl_write"
  /\ call.written < call.response.chunks
  /\ fs' = WriteFile(fs, call.filename,
                     File(call.response.text, call.written + 1, call.response.chunks))
  /\ call' = [call EXCEPT !.written = call.written + 1]
  /\ pc' = IF call.written + 1 = call.response.chunks THEN "dl_check" ELSE "dl_write"
  /\ UNCHANGED <<inputs, clock, run, locals, i, save_path, downloaded_count, net, log>>

\* lines 188 and 206-208: iter_content raises (the connection is reset),
\* the handler returns False
DlStreamError ==
  /\ pc = "dl_write"
  /\ call.written < call.response.chunks
  /\ call' = call
  /\ Return(FALSE, "stream")
  /\ UNCHANGED <<inputs, fs, clock, run, locals, net>>

\* lines 192-204: the first four bytes of the file decide the result
DlCheck ==
  /\ pc = "dl_check"
  /\ call' = call
  /\ IF Header(fs[call.filename]) = S_pdf_magic
       THEN Return(TRUE, "none")
       ELSE Return(FALSE, "signature")
  /\ UNCHANGED <<inputs, fs, clock, run, locals, net>>

\* the operator interrupts the process (KeyboardInterrupt is no Exception,
\* no handler catches it)
Interrupt ==
  /\ pc \in {"loop", "dl_begin", "dl_open", "dl_write", "dl_check"}
  /\ pc' = "interrupted"
  /\ UNCHANGED <<inputs, fs, clock, run, locals, i, save_path, downloaded_count, call, net, log>>

\* scrape_subject is run again on the same page and directory
NextRun ==
  /\ pc = "done"
  /\ run < MaxRuns
  /\ run' = run + 1
  /\ pc' = "idle"
  /\ drive_links' = <<>>
  /\ filtered_drive_links' = <<>>
  /\ i' = 0
  /\ save_path' = <<>>
  /\ downloaded_count' = 0
  /\ call' = NoCall
  /\ UNCHANGED <<inputs, fs, clock, net, log>>

Next ==
  \/ ScrapeStart
  \/ SkipExisting
  \/ StartDownload
  \/ DlBegin
  \/ DlOpen
  \/ DlWrite
  \/ DlStreamError
  \/ DlCheck
  \/ Interrupt
  \/ NextRun

Spec == Init /\ [][Next]_vars

(***************************************************************************)
(* download_drive_pdf called on its own, with any URL: the URLs of the     *)
(* four shapes, built of a prefix, the identifier and what follows it, and *)
(* URLs without an identifier.                                             *)
(***************************************************************************)
UrlPrefixes ==
  { <<"h","t","t","p","s",":","/","/">> \o S_drive_host,
    S_drive_host \o <<"/","u","/","0">>,
    <<"h","t","t","p","s",":","/","/","d","o","c","s",".","g","o","o","g","l","e",".","c","o","m","/","d","o","c","u","m","e","n","t">>,
    \* a query that holds uid=7 before the shape
    <<"h","t","t","p","s",":","/","/">> \o S_drive_host
      \o <<"/","u","c","?","u","i","d","=","7","&","u","=">> }

\* the four shapes: /file/d/{id}, /d/{id}/, ?id={id}, /open?id={id}
ShapeUrl(shape, id) ==
  CASE shape = 1 -> S_file_d \o id
    [] shape = 2 -> <<"/","d","/">> \o id \o <<"/">>
    [] shape = 3 -> <<"?">> \o S_id_eq \o id
    [] shape = 4 -> <<"/","o","p","e","n","?">> \o S_id_eq \o id

\* what may follow the identifier: a path for the path shapes, further
\* parameters for the query shapes
UrlTrails(shape) ==
  CASE shape = 1 -> { <<>>, <<"/","v","i","e","w">>,
                      <<"/","v","i","e","w","?","u","s","p","=","s","h","a","r","i","n","g">>,
                      <<"?","i","d","=","Z","z","8">> }
    [] shape = 2 -> { <<>>, <<"e","d","i","t">>,
                      <<"v","i","e","w","?","u","s","p","=","s","h","a","r","i","n","g">>,
                      <<"e","d","i","t","?","i","d","=","Z","z","8">> }
    [] OTHER     -> { <<>>, <<"&","e","x","p","o","r","t","=","d","o","w","n","l","o","a","d">>,
                      <<"&","u","s","p","=","s","h","a","r","i","n","g">>,
                      <<"&","n","e","x","t","=","/","f","i","l","e","/","d","/","Z","z","8">> }

\* the URLs of the four shapes, in parts
UrlParts ==
  { q \in [prefix : UrlPrefixes, shape : 1..4,
           id : Ids \cup {<<"a","_","-","Q">>},
           trail : UNION { UrlTrails(k) : k \in 1..4 }] :
      q.trail \in UrlTrails(q.shape) }

BuildUrl(parts) == parts.prefix \o ShapeUrl(parts.shape, parts.id) \o parts.trail

\* URLs that hold no identifier
PlainUrls ==
  { <<>>,
    <<"h","t","t","p","s",":","/","/">> \o S_drive_host
      \o <<"/","d","r","i","v","e","/","f","o","l","d","e","r","s">>,
    <<"h","t","t","p","s",":","/","/","w","w","w",".","k","t","u","n","o","t","e","s",".","i","n","/","n","o","t","e","s",".","p","d","f">>,
    <<"h","t","t","p","s",":","/","/">> \o S_drive_host \o <<"/","d","/">> \o Id1 }

InitCall ==
  /\ page = Page(<<>>, <<>>)
  /\ subject_name = <<>>
  /\ \E n \in 1..MaxProfiles2 : server = [id \in Ids |-> Profiles(id)[n]]
  /\ fs \in InitialDirs
  /\ clock = 0
  /\ run = 1
  /\ pc = "dl_begin"
  /\ drive_links = <<>>
  /\ filtered_drive_links = <<>>
  /\ i = 0
  /\ save_path = <<>>
  /\ downloaded_count = 0
  /\ \E u \in { BuildUrl(q) : q \in UrlParts } \cup PlainUrls :
       call = [NoCall EXCEPT !.url = u, !.save_path = F_notes,
                             !.before = fs, !.direct = TRUE]
  /\ net = <<>>
  /\ log = <<>>

NextCall ==
  \/ DlBegin
  \/ DlOpen
  \/ DlWrite
  \/ DlStreamError
  \/ DlCheck
  \/ Interrupt

SpecCall == InitCall /\ [][NextCall]_vars

(***************************************************************************)
(* The properties.                                                         *)
(***************************************************************************)
Handled == 1..Len(log)

\* a call of download_drive_pdf has just returned: log[Len(log)] is its
\* entry and nothing ran since
JustReturned ==
  /\ pc \in {"loop", "done", "returned"}
  /\ log # <<>>
  /\ log[Len(log)].outcome # "skipped"

LastEntry == log[Len(log)]

\* C1: when the final response body does not start with %PDF, the call of
\* download_drive_pdf reports failure and leaves no file on disk under the
\* name it resolved.
C1_InvalidBodyLeavesNoFile ==
  (JustReturned /\ LastEntry.filename # None /\ ~LastEntry.valid)
    => (LastEntry.outcome = "failed" /\ LastEntry.filename \notin DOMAIN fs)

\* C2: downloading never overwrites: a file that exists at the path where
\* download_drive_pdf finally writes has the same bytes after the call.
C2_NeverOverwrites ==
  (JustReturned /\ LastEntry.filename \in DOMAIN call.before)
    => fs[LastEntry.filename] = call.before[LastEntry.filename]

\* C3: when the process is interrupted while download_drive_pdf runs, every
\* file of the directory is complete and valid: no partly written file is
\* visible under its final name.
C3_InterruptLeavesWholeFiles ==
  pc = "interrupted"
    => \A n \in DOMAIN fs :
         fs[n].got = fs[n].total /\ Header(fs[n]) = S_pdf_magic

\* two entries of the log handle the same reference
SameReference(a, b) ==
  log[a].file_id = log[b].file_id /\ log[a].text = log[b].text

\* the requests sent for the reference of entry e
RequestsFor(e) ==
  { k \in 1..Len(net) :
      net[k].run = e.run /\ net[k].idx = e.idx /\ net[k].kind # "page" }

\* C4: re-running is idempotent: a reference a run stored a file for is
\* reported as already present by every later run on the same page, server
\* and directory, and no request is sent for it (a run whose connection is
\* reset is not a run with the same responses).
C4_RerunSkipsStored ==
  \A a, b \in Handled :
    (/\ log[a].run < log[b].run
     /\ SameReference(a, b)
     /\ log[a].outcome = "stored"
     /\ log[b].error # "stream")
      => (log[b].outcome = "skipped" /\ RequestsFor(log[b]) = {})

FinalResponse(file_id) ==
  LET answers == ServerAnswers(file_id) IN
    IF /\ ~answers.first.raises
       /\ Confirms(answers.first.text)
      THEN answers.second
      ELSE answers.first

\* name with _1 before the extension
Suffixed(name) ==
  SubSeq(name, 1, Len(name) - Len(S_pdf)) \o <<"_", "1">> \o S_pdf

\* C6: two distinct references of one page that resolve to the same
\* filename, both with valid PDF bytes, end as two stored files, the second
\* one with the suffix _1; neither document is dropped.
C6_CollisionIsSuffixed ==
  \A a, b \in Handled :
    (/\ b = Len(log)
     /\ pc \in {"loop", "done"}
     /\ a < b
     /\ log[a].run = log[b].run
     /\ log[a].file_id # log[b].file_id
     /\ log[a].outcome = "stored"
     /\ ~FinalResponse(log[b].file_id).raises
     /\ IsPdf(FinalResponse(log[b].file_id))
     /\ \/ log[b].outcome = "stored" /\ log[b].filename = log[a].filename
        \/ log[b].outcome = "skipped" /\ log[b].lookup = log[a].filename)
      => (/\ log[a].filename \in DOMAIN fs
          /\ fs[log[a].filename].data = FinalResponse(log[a].file_id).text
          /\ Suffixed(log[a].filename) \in DOMAIN fs
          /\ fs[Suffixed(log[a].filename)].data = FinalResponse(log[b].file_id).text)

Extracted == call.direct /\ pc \in {"dl_open", "dl_write", "dl_check", "returned"}

\* the pattern of extract_file_id a shape is meant for
PatternOf(shape) == IF shape >= 3 THEN 3 ELSE shape

\* no pattern before number n matches url
NoEarlierPattern(url, n) ==
  \A j \in 1..n - 1 :
    IdPatternPos(url, IdPatterns[j]) = 0

\* pattern number n does not match url before position k
NotBefore(url, n, k) ==
  IdPatternPos(url, IdPatterns[n]) > k

\* C8: for a URL of one of the four shapes, with any prefix and anything
\* after the identifier, extract_file_id returns exactly the identifier.
C8_ReturnsIdentifier ==
  \A q \in UrlParts :
    (Extracted /\ call.url = BuildUrl(q)) => call.file_id = q.id

\* C8, as amended: it returns exactly the identifier when no pattern
\* earlier in the order matches anywhere in the URL and the pattern of the
\* shape does not match in the prefix; the first pattern of the order that
\* matches decides, at its leftmost match.
C8_ReturnsIdentifierOfFirstPattern ==
  \A q \in UrlParts :
    (/\ Extracted
     /\ call.url = BuildUrl(q)
     /\ NoEarlierPattern(call.url, PatternOf(q.shape))
     /\ NotBefore(call.url, PatternOf(q.shape), Len(q.prefix)))
      => call.file_id = q.id

\* a URL of the path shape followed by an id= parameter of another document
C8_Witness ==
  /\ Extracted
  /\ \E q \in UrlParts :
       /\ q.shape = 1
       /\ Contains(q.trail, S_id_eq)
       /\ call.url = BuildUrl(q)
       /\ call.file_id = q.id

\* C9: for a URL none of the patterns matches, download_drive_pdf returns
\* a failure, sends no request and creates or changes no file.
C9_NoIdentifierNoEffect ==
  (pc = "returned" /\ extract_file_id(call.url) = None)
    => (/\ LastEntry.outcome = "failed"
        /\ net = <<>>
        /\ fs = call.before)

\* the call with a URL without identifier has returned
C9_Witness ==
  /\ pc = "returned"
  /\ call.url \in PlainUrls
  /\ call.url # <<>>
  /\ call.file_id = None
  /\ fs # <<>>

\* C10: two executions of download_drive_pdf for the same reference, with
\* the same server responses, choose the same filename.
C10_SameFilename ==
  \A a, b \in Handled :
    (SameReference(a, b) /\ log[a].filename # None /\ log[b].filename # None)
      => log[a].filename = log[b].filename

\* C10, as amended: they choose the same filename when the header, the
\* view page or the module inference names the file; the last fallback,
\* Document_<int(time.time()) % 10000>.pdf, depends on the time of the call.
C10_SameFilenameAboveFallback ==
  \A a, b \in Handled :
    (/\ SameReference(a, b)
     /\ log[a].filename # None
     /\ log[b].filename # None
     /\ log[a].strategy # "time")
      => log[a].filename = log[b].filename

\* the same reference was named twice, by the module inference
C10_Witness ==
  \E a, b \in Handled :
    /\ a < b
    /\ SameReference(a, b)
    /\ log[a].strategy = "module"
    /\ log[b].strategy = "module"
    /\ log[a].filename = log[b].filename

(***************************************************************************)
(* A function called on its own: nothing of scrape_subject runs, call is   *)
(* the frame of the function and pc its position.                          *)
(***************************************************************************)
Alone ==
  /\ page = Page(<<>>, <<>>)
  /\ subject_name = <<>>
  /\ server = [id \in Ids |-> Profiles(id)[1]]
  /\ clock = 0
  /\ run = 1
  /\ drive_links = <<>>
  /\ filtered_drive_links = <<>>
  /\ i = 0
  /\ save_path = <<>>
  /\ downloaded_count = 0
  /\ net = <<>>

\* what a function called on its own leaves alone
scraping ==
  <<inputs, clock, run, locals, i, save_path, downloaded_count, net>>

(***************************************************************************)
(* extract_module_info_from_context called with the module number n        *)
(* written in arabic digits, as an upper-case and as a lower-case roman    *)
(* numeral, in the link text or in the text around the identifier.         *)
(***************************************************************************)
\* the roman numerals of 1..10
RomanNumerals ==
  << <<"I">>, <<"I","I">>, <<"I","I","I">>, <<"I","V">>, <<"V">>,
     <<"V","I">>, <<"V","I","I">>, <<"V","I","I","I">>, <<"I","X">>, <<"X">> >>

\* module number n as the page writes it
Numeral(n, form) ==
  CASE form = "arabic" -> DecStr(n)
    [] form = "upper"  -> RomanNumerals[n]
    [] form = "lower"  -> Lower(RomanNumerals[n])

\* what may follow the module number
ModuleTails == { <<>>, <<" ","N","o","t","e","s">> }

InitInfer ==
  /\ Alone
  /\ fs = <<>>
  /\ log = <<>>
  /\ pc = "infer"
  /\ \E n \in 1..Len(RomanNumerals), form \in {"arabic", "upper", "lower"},
        in_link \in BOOLEAN, tail \in ModuleTails :
       call = [n |-> n, form |-> form,
               link_text |-> IF in_link
                               THEN S_Module \o <<" ">> \o Numeral(n, form) \o tail
                               ELSE <<"P","D","F">>,
               clean_context |-> IF in_link
                                   THEN None
                                   ELSE S_Module \o <<" ">> \o Numeral(n, form) \o tail,
               module_info |-> None]

\* lines 178 and 517: module_info =
\* self.extract_module_info_from_context(html_content, file_id, link_text)
Infer ==
  /\ pc = "infer"
  /\ call' = [call EXCEPT !.module_info =
                extract_module_info_from_context(call.clean_context, call.link_text)]
  /\ pc' = "inferred"
  /\ UNCHANGED <<scraping, fs, log>>

NextInfer == Infer

SpecInfer == InitInfer /\ [][NextInfer]_vars

\* C11: for every module number n in 1..10, "Module <roman numeral of n>"
\* in upper or lower case and "Module <n>" resolve to the same name
\* Module_NN, n zero-padded to two digits.
C11_RomanAndArabicAgree ==
  pc = "inferred" => call.module_info = S_Module_ \o ZFill2(DecStr(call.n))

\* the requests of kind kind sent for the reference of entry e
RequestsOfKind(e, kind) == { k \in RequestsFor(e) : net[k].kind = kind }

\* a source of names gave a name
Names(name) == name # None /\ name # <<>>

\* what the module inference gives for the reference of entry e
InferredFor(e) ==
  extract_module_info_from_context(CleanContext(page, e.file_id), e.text)

\* the priority of the sources holds for a named reference: header is the
\* name of the Content-Disposition header of the final response, meta what
\* the view page gives, module what the module inference gives
InPriorityOrder(e, header, meta, module) ==
  /\ Names(header) =>
       /\ e.strategy = "header"
       /\ e.filename = ServerFilename(header)
       /\ RequestsOfKind(e, "view") = {}
  /\ ~Names(header) => Cardinality(RequestsOfKind(e, "view")) = 1
  /\ (~Names(header) /\ Names(meta)) =>
       /\ e.strategy = "metadata"
       /\ e.filename = ServerFilename(meta)
  /\ (~Names(header) /\ ~Names(meta) /\ module # None) =>
       /\ e.strategy = "module"
       /\ e.filename = module \o S_pdf
  /\ (~Names(header) /\ ~Names(meta) /\ module = None) =>
       e.strategy = "time"

\* C12: download_drive_pdf names the file after the first source that
\* gives a name, in the order Content-Disposition header, Drive view page,
\* module inference, lower fallback; the view endpoint is asked only when
\* the header gave no name.
C12_FirstSourceNames ==
  \A a \in Handled :
    log[a].filename # None =>
      InPriorityOrder(
        log[a],
        ContentDispositionName(FinalResponse(log[a].file_id).cd),
        get_drive_filename(ServerAnswers(log[a].file_id).view),
        InferredFor(log[a]))

\* the header named a file the module inference had a name for too, and
\* the view page named a file the module inference had a name for too
C12_Witness ==
  /\ \E a \in Handled :
       /\ log[a].strategy = "header"
       /\ InferredFor(log[a]) # None
       /\ RequestsOfKind(log[a], "view") = {}
  /\ \E b \in Handled :
       /\ log[b].strategy = "metadata"
       /\ InferredFor(log[b]) # None

\* C13: when the header and the view page give no name, no module pattern
\* matches and the link text is longer than 3 characters, the file is
\* stored under the name made of the sanitized link text (at most 50
\* characters, ending in ... when cut), not under a Document_ name.
C13_LinkTextBeforeSequential ==
  \A a \in Handled :
    (/\ log[a].outcome = "stored"
     /\ ~Names(ContentDispositionName(FinalResponse(log[a].file_id).cd))
     /\ ~Names(get_drive_filename(ServerAnswers(log[a].file_id).view))
     /\ InferredFor(log[a]) = None
     /\ Len(log[a].text) > 3)
      => /\ log[a].filename = ClipLinkText(CleanName(log[a].text)) \o S_pdf
         /\ log[a].filename \in DOMAIN fs

\* the lookup of the view page was made for entry e and gave nothing
LookupFailed(e) ==
  /\ ~FinalResponse(e.file_id).raises
  /\ ~Names(ContentDispositionName(FinalResponse(e.file_id).cd))
  /\ get_drive_filename(ServerAnswers(e.file_id).view) = None

\* C14: when the GET to the view endpoint raises or its page has no usable
\* title, get_drive_filename gives nothing, download_drive_pdf names the
\* file by the next strategy and the download goes on: the lookup failure
\* does not end it.
C14_LookupFailsSoft ==
  \A a \in Handled :
    (log[a].outcome # "skipped" /\ LookupFailed(log[a]))
      => /\ Cardinality(RequestsOfKind(log[a], "view")) = 1
         /\ log[a].strategy \in {"module", "time"}
         /\ log[a].filename # None
         /\ log[a].error \in {"none", "signature", "stream"}
         /\ (log[a].valid /\ log[a].error # "stream") => log[a].outcome = "stored"

\* a file was stored after the view endpoint raised, and one after it
\* answered a page without a usable title
C14_Witness ==
  /\ \E a \in Handled :
       /\ LookupFailed(log[a])
       /\ ServerAnswers(log[a].file_id).view.raises
       /\ log[a].outcome = "stored"
       /\ log[a].filename \in DOMAIN fs
  /\ \E b \in Handled :
       /\ LookupFailed(log[b])
       /\ ~ServerAnswers(log[b].file_id).view.raises
       /\ log[b].outcome = "stored"
       /\ log[b].filename \in DOMAIN fs

\* the first body is the warning page and holds confirm={token}
HoldsToken(text, token) ==
  /\ Contains(text, S_warning)
  /\ token # <<>>
  /\ \A k \in 1..Len(token) : token[k] \in IdChars
  /\ \E k \in 1..Len(text) :
       /\ MatchAt(text, ConfirmPattern.lit \o token, k)
       /\ k + Len(ConfirmPattern.lit) + Len(token) = Len(text) + 1
          \/ text[k + Len(ConfirmPattern.lit) + Len(token)] \notin IdChars
       /\ \A j \in 1..k - 1 : ~MatchAt(text, ConfirmPattern.lit, j)
          \/ text[j + Len(ConfirmPattern.lit)] \notin IdChars

\* the requests to uc?export=download for entry e are one round trip: one
\* GET, and one more with &confirm={token} after it when first holds a token
OneRoundTrip(e, first) ==
  /\ Cardinality(RequestsOfKind(e, "download")) = 1
  /\ Cardinality(RequestsOfKind(e, "confirm")) <= 1
  /\ \A k \in RequestsOfKind(e, "download") : net[k].file_id = e.file_id
  /\ \A k \in RequestsOfKind(e, "confirm") :
       /\ net[k].file_id = e.file_id
       /\ ~first.raises
       /\ HoldsToken(first.text, net[k].token)
       /\ \E j \in RequestsOfKind(e, "download") : j < k
  /\ RequestsOfKind(e, "confirm") = {} =>
       (first.raises \/ \A t \in {<<"t","0","k">>} : ~HoldsToken(first.text, t))

\* C15: a call of download_drive_pdf sends at most two GETs to the
\* uc?export=download endpoint; the second only when the first body is the
\* warning page and holds a confirm token, with &confirm={token} appended
\* to the first URL; its response is final, whatever it holds.
C15_SingleRoundTrip ==
  \A a \in Handled :
    (log[a].outcome # "skipped" /\ log[a].file_id # None)
      => /\ OneRoundTrip(log[a], ServerAnswers(log[a].file_id).first)
         /\ RequestsOfKind(log[a], "confirm") # {} =>
              /\ log[a].valid = (/\ ~ServerAnswers(log[a].file_id).second.raises
                                 /\ IsPdf(ServerAnswers(log[a].file_id).second))
              /\ ServerAnswers(log[a].file_id).second.raises
                   => (log[a].error = "transport" /\ log[a].filename = None)
              /\ (log[a].filename \in DOMAIN fs /\ a = Len(log) /\ JustReturned)
                   => fs[log[a].filename].data =
                        ServerAnswers(log[a].file_id).second.text

\* a confirming GET was answered with an error page: that answer was
\* written and checked, and no third GET was sent
C15_Witness ==
  \E a \in Handled :
    /\ Cardinality(RequestsOfKind(log[a], "download")) = 1
    /\ Cardinality(RequestsOfKind(log[a], "confirm")) = 1
    /\ log[a].error = "signature"
    /\ log[a].filename \in DOMAIN fs
    /\ fs[log[a].filename].data = ServerAnswers(log[a].file_id).second.text

\* the entries of the current run
ThisRun == SelectSeq(log, LAMBDA e : e.run = run)

\* the references handled so far in the current run are the first ones of
\* the list, one entry each, in list order, each skipped or tried with one
\* download
HandledInOrder ==
  (pc # "idle" /\ filtered_drive_links # <<>>) =>
    /\ Len(ThisRun) = i - 1
    /\ \A k \in 1..Len(ThisRun) :
         /\ ThisRun[k].idx = k
         /\ ThisRun[k].file_id = filtered_drive_links[k].file_id
         /\ ThisRun[k].text = filtered_drive_links[k].text
         /\ ThisRun[k].outcome \in {"skipped", "stored", "failed"}
         /\ Cardinality(RequestsOfKind(ThisRun[k], "download")) =
              IF ThisRun[k].outcome = "skipped" THEN 0 ELSE 1
    /\ pc = "done" => Len(ThisRun) = Len(filtered_drive_links)

\* C16: in the loop of scrape_subject every reference of the list is
\* handled exactly once, in list order, skipped as existing or tried with
\* one download; whatever the outcome of a reference, the loop goes on with
\* the next one and ends only when every reference is handled.
C16_BadReferenceDoesNotAbort ==
  /\ HandledInOrder
  /\ pc \in {"loop", "dl_begin", "dl_open", "dl_write", "dl_check"}
       => i \in 1..Len(filtered_drive_links)

\* the run is over: a reference failed on its transport or its content and
\* a later one was stored
C16_Witness ==
  /\ pc = "done"
  /\ \E a, b \in 1..Len(ThisRun) :
       /\ a < b
       /\ ThisRun[a].outcome = "failed"
       /\ ThisRun[a].error \in {"transport", "signature"}
       /\ ThisRun[b].outcome = "stored"

(***************************************************************************)
(* PDFProcessor.rename_pdf_file                                            *)
(*                                                                         *)
(* fs is the directory of the file: file name -> document, a document      *)
(* [doc, links, whole] with doc naming its content, links the number of    *)
(* link annotations of each page and whole FALSE for a partly written      *)
(* file.                                                                   *)
(***************************************************************************)
Pdf(doc, links) == [doc |-> doc, links |-> links, whole |-> TRUE]

S_ktunotes == <<"k","t","u","n","o","t","e","s">>

S_ktunotes_in == S_ktunotes \o <<".","i","n">>

\* patterns_to_remove: lit is the literal text of the pattern, spaces is
\* set for the patterns that start with \s+.  All are used with
\* re.IGNORECASE
PatternsToRemove ==
  << [lit |-> <<" ","-"," ">> \o S_ktunotes_in, spaces |-> FALSE],
     [lit |-> <<" ","-"," ">> \o S_ktunotes_in, spaces |-> FALSE],
     [lit |-> <<" ","-">> \o S_ktunotes_in, spaces |-> FALSE],
     [lit |-> <<" ","-"," ">> \o S_ktunotes, spaces |-> FALSE],
     [lit |-> <<" ","-"," ">> \o S_ktunotes, spaces |-> FALSE],
     [lit |-> <<"_">> \o S_ktunotes_in, spaces |-> FALSE],
     [lit |-> <<"_">> \o S_ktunotes_in, spaces |-> FALSE],
     [lit |-> <<"(">> \o S_ktunotes_in \o <<")">>, spaces |-> FALSE],
     [lit |-> <<"(">> \o S_ktunotes_in \o <<")">>, spaces |-> FALSE],
     [lit |-> S_ktunotes_in, spaces |-> TRUE],
     [lit |-> S_ktunotes_in, spaces |-> TRUE] >>

\* the length of the match of pattern p at s[k], 0 when there is none
BrandAt(s, p, k) ==
  IF p.spaces
    THEN IF /\ RunLen(s, SpaceChars, k) > 0
            /\ MatchAtI(s, p.lit, k + RunLen(s, SpaceChars, k))
           THEN RunLen(s, SpaceChars, k) + Len(p.lit)
           ELSE 0
    ELSE IF MatchAtI(s, p.lit, k) THEN Len(p.lit) ELSE 0

\* re.sub(p, '', s, flags=re.IGNORECASE) from s[k] on
RECURSIVE RemoveFrom(_, _, _)
RemoveFrom(s, p, k) ==
  IF k > Len(s) THEN <<>>
  ELSE IF BrandAt(s, p, k) > 0 THEN RemoveFrom(s, p, k + BrandAt(s, p, k))
  ELSE <<s[k]>> \o RemoveFrom(s, p, k + 1)

\* lines 730-731: each pattern is removed in turn
RECURSIVE RemoveAll(_, _)
RemoveAll(s, ps) ==
  IF ps = <<>> THEN s ELSE RemoveAll(RemoveFrom(s, Head(ps), 1), Tail(ps))

\* lines 730-734: new_filename before the existence test
StripBranding(filename) ==
  UndoublePdf(Strip(CollapseSpaces(RemoveAll(filename, PatternsToRemove))))

\* the position of the dot os.path.splitext splits s at, looking from s[k]
\* backwards; 0 when s has no extension
RECURSIVE ExtDot(_, _)
ExtDot(s, k) ==
  IF k <= 1 THEN 0
  ELSE IF s[k] = "." /\ \E j \in 1..k - 1 : s[j] # "." THEN k
  ELSE ExtDot(s, k - 1)

\* f"{name_part}_{counter}{ext}" with name_part, ext = os.path.splitext(s)
Numbered(s, dot, counter) ==
  IF dot = 0
    THEN s \o <<"_">> \o DecStr(counter)
    ELSE SubSeq(s, 1, dot - 1) \o <<"_">> \o DecStr(counter) \o From(s, dot)

\* lines 739-744: the first name of the loop that no file of dir has
RECURSIVE FreeName(_, _, _)
FreeName(dir, new_filename, counter) ==
  IF new_filename \notin DOMAIN dir THEN new_filename
  ELSE FreeName(dir, Numbered(new_filename, ExtDot(new_filename, Len(new_filename)),
                              counter),
                counter + 1)

\* pdf_file.rename(new_file_path)
MoveFile(dir, old, new) ==
  [n \in (DOMAIN dir \ {old}) \cup {new} |-> IF n = new THEN dir[old] ELSE dir[n]]

\* the file names of the model
BrandedNames ==
  { \* the usual branding, the name it is stripped to, and the name it is
    \* given when that one is taken
    <<"a"," ","-"," ">> \o S_ktunotes_in \o S_pdf,
    <<"a">> \o S_pdf,
    <<"a","_","1">> \o S_pdf,
    \* two spaces after the dash, and one
    <<"a"," ","-"," "," ">> \o S_ktunotes \o S_pdf,
    <<"a"," ","-"," ">> \o S_ktunotes \o S_pdf,
    \* the branding in brackets and in upper case
    <<"b","(","K","T","U","N","O","T","E","S",".","I","N",")">> \o S_pdf,
    \* the branding before a doubled extension
    <<"c","_">> \o S_ktunotes_in \o S_pdf \o S_pdf,
    \* no branding
    <<"M","o","d","u","l","e"," ","1">> \o S_pdf }

\* a directory holds at most MaxFiles files
MaxFiles == 3

\* the directories of the model: every file holds its own document
BrandedDirs ==
  { [n \in names |-> Pdf(n, <<>>)] :
      names \in { x \in SUBSET BrandedNames : x # {} /\ Cardinality(x) <= MaxFiles } }

InitRename ==
  /\ Alone
  /\ log = <<>>
  /\ fs \in BrandedDirs
  /\ pc = "rename"
  /\ \E n \in DOMAIN fs : call = [pdf_file |-> n, before |-> fs, passes |-> <<>>]

\* lines 736-754: the file is renamed when the stripped name differs, and
\* the call returns (path, renamed); when the renaming raises, the except
\* clause returns (pdf_file, False) and the directory is as it was
Renamed(filename, new_filename, raises) ==
  /\ fs' = IF new_filename # filename /\ ~raises
             THEN MoveFile(fs, filename, new_filename)
             ELSE fs
  /\ call' = [call EXCEPT
                !.pdf_file = IF raises THEN filename ELSE new_filename,
                !.passes = Append(@, [pdf_file |-> filename,
                                      path |-> IF raises THEN filename ELSE new_filename,
                                      renamed |-> new_filename # filename /\ ~raises,
                                      raised |-> new_filename # filename /\ raises,
                                      before |-> fs])]

\* rename_pdf_file without the loop of lines 739-744
RenamePdfFile_overwrites ==
  /\ pc \in {"rename", "renamed"}
  /\ \E raises \in BOOLEAN :
       Renamed(call.pdf_file, StripBranding(call.pdf_file), raises)
  /\ pc' = IF pc = "rename" THEN "renamed" ELSE "renamed_again"
  /\ UNCHANGED <<scraping, log>>

\* lines 710-754: rename_pdf_file(pdf_file), called on the path the call
\* before returned
RenamePdfFile ==
  /\ pc \in {"rename", "renamed"}
  /\ \E raises \in BOOLEAN :
       Renamed(call.pdf_file,
               IF StripBranding(call.pdf_file) # call.pdf_file
                 THEN FreeName(fs, StripBranding(call.pdf_file), 1)
                 ELSE call.pdf_file,
               raises)
  /\ pc' = IF pc = "rename" THEN "renamed" ELSE "renamed_again"
  /\ UNCHANGED <<scraping, log>>

NextRename == RenamePdfFile

SpecRename == InitRename /\ [][NextRename]_vars

\* C17: after rename_pdf_file was applied once to a file, applying it again
\* to the name it returned renames nothing and returns that name (no
\* renaming having raised).
C17_StripIsIdempotent ==
  (pc = "renamed_again" /\ \A k \in 1..2 : ~call.passes[k].raised) =>
    /\ ~call.passes[2].renamed
    /\ call.passes[2].path = call.passes[1].path
    /\ fs = call.passes[2].before

\* the last call of rename_pdf_file
LastPass == call.passes[Len(call.passes)]

\* C18: a call of rename_pdf_file leaves every other file of the directory
\* in place with its content, leaves the number of files as it was, and
\* leaves the content of the file it was called on under the path it returns.
C18_RenameNeverOverwrites ==
  pc \in {"renamed", "renamed_again"} =>
    /\ \A n \in DOMAIN LastPass.before \ {LastPass.pdf_file} :
         n \in DOMAIN fs /\ fs[n] = LastPass.before[n]
    /\ Cardinality(DOMAIN fs) = Cardinality(DOMAIN LastPass.before)
    /\ LastPass.path \in DOMAIN fs
    /\ fs[LastPass.path] = LastPass.before[LastPass.pdf_file]

\* the stripped name was taken, and the file was renamed to another one
C18_Witness ==
  /\ pc = "renamed"
  /\ LastPass.renamed
  /\ StripBranding(LastPass.pdf_file) \in DOMAIN LastPass.before
  /\ LastPass.path # StripBranding(LastPass.pdf_file)
  /\ Cardinality(DOMAIN fs) = MaxFiles

(***************************************************************************)
(* PDFProcessor.remove_hyperlinks_from_pdf (src/all_in_1.py) and           *)
(* remove_hyperlinks (src/rmHyper.py), one step per statement that reads   *)
(* or writes the directory.                                                *)
(***************************************************************************)
S_tmp == <<".","t","m","p">>

\* the document without its link annotations
Stripped(d) == [d EXCEPT !.links = [p \in DOMAIN @ |-> 0]]

\* a file of which only a part was written
Partial(d) == [d EXCEPT !.whole = FALSE]

LinkFree(d) == \A p \in DOMAIN d.links : d.links[p] = 0

\* the numbers of link annotations on the pages of the model's documents
LinkProfiles == { <<0>>, <<2>>, <<0, 1>>, <<0, 0>> }

\* the file names of the model: two documents and a file left under the
\* temporary name of the first
StripNames == { <<"a">> \o S_pdf, <<"b">> \o S_pdf, <<"a">> \o S_pdf \o S_tmp }

StripDirs ==
  UNION { { [n \in names |-> Pdf(n, links[n])] : links \in [names -> LinkProfiles] } :
            names \in { x \in SUBSET StripNames : x # {} /\ Cardinality(x) <= MaxFiles } }

InitStrip ==
  /\ Alone
  /\ log = <<>>
  /\ fs \in StripDirs
  /\ pc = "strip"
  /\ \E n \in DOMAIN fs, tool \in {"remove_hyperlinks_from_pdf", "remove_hyperlinks"} :
       /\ EndsWith(n, S_pdf)
       /\ call = [tool |-> tool, file_path |-> n, before |-> fs, doc |-> None,
                  modified |-> FALSE, failed |-> "", result |-> None]

\* all_in_1.py line 760, rmHyper.py line 6: doc = fitz.open(file_path)
OpenDoc ==
  /\ pc = "strip"
  /\ call' = [call EXCEPT !.doc = fs[call.file_path]]
  /\ pc' = "opened"
  /\ UNCHANGED <<scraping, fs, log>>

\* all_in_1.py lines 763-769, rmHyper.py lines 9-17: every link of every
\* page is deleted from the opened document; all_in_1.py sets modified
DeleteLinks ==
  /\ pc = "opened"
  /\ call' = [call EXCEPT !.doc = Stripped(@),
                          !.modified = /\ call.tool = "remove_hyperlinks_from_pdf"
                                       /\ ~LinkFree(call.doc)]
  /\ pc' = "scanned"
  /\ UNCHANGED <<scraping, fs, log>>

\* all_in_1.py lines 778-780: nothing was deleted
CloseUnmodified ==
  /\ pc = "scanned"
  /\ call.tool = "remove_hyperlinks_from_pdf"
  /\ ~call.modified
  /\ call' = [call EXCEPT !.result = FALSE]
  /\ pc' = "done"
  /\ UNCHANGED <<scraping, fs, log>>

\* the saving writes to the path of the original
SaveBegin_in_place ==
  /\ pc = "scanned"
  /\ call.tool = "remove_hyperlinks" \/ call.modified
  /\ fs' = [fs EXCEPT ![call.file_path] = Partial(call.doc)]
  /\ pc' = "saving"
  /\ UNCHANGED <<scraping, call, log>>

\* all_in_1.py lines 771-773, rmHyper.py lines 20-21: doc.save(temp_pdf)
\* starts writing the temporary file; rmHyper.py saves unconditionally
SaveBegin ==
  /\ pc = "scanned"
  /\ call.tool = "remove_hyperlinks" \/ call.modified
  /\ fs' = WriteFile(fs, call.file_path \o S_tmp, Partial(call.doc))
  /\ pc' = "saving"
  /\ UNCHANGED <<scraping, call, log>>

\* all_in_1.py lines 773-774, rmHyper.py lines 21-22: the saving completes
SaveEnd ==
  /\ pc = "saving"
  /\ fs' = WriteFile(fs, call.file_path \o S_tmp, call.doc)
  /\ pc' = "saved"
  /\ UNCHANGED <<scraping, call, log>>

\* all_in_1.py lines 775-777, rmHyper.py line 25: os.replace(temp_pdf, file_path)
ReplaceOriginal ==
  /\ pc = "saved"
  /\ fs' = [n \in DOMAIN fs \ {call.file_path \o S_tmp} |->
              IF n = call.file_path THEN fs[call.file_path \o S_tmp] ELSE fs[n]]
  /\ call' = [call EXCEPT !.result = IF call.tool = "remove_hyperlinks_from_pdf"
                                       THEN TRUE ELSE None]
  /\ pc' = "done"
  /\ UNCHANGED <<scraping, log>>

\* fitz.open, delete_link, doc.save or os.replace raises: all_in_1.py
\* lines 782-784 return False, rmHyper.py has no handler and the exception
\* leaves the function.  A failed saving leaves what it wrote or removes it.
StripRaises ==
  /\ pc \in {"strip", "opened", "saving", "saved"}
  /\ call' = [call EXCEPT !.failed = pc,
                          !.result = IF call.tool = "remove_hyperlinks_from_pdf"
                                       THEN FALSE ELSE None]
  /\ pc' = IF call.tool = "remove_hyperlinks_from_pdf" THEN "done" ELSE "raised"
  /\ \/ fs' = fs
     \/ /\ pc = "saving"
        /\ fs' = [n \in DOMAIN fs \ {call.file_path \o S_tmp} |-> fs[n]]
  /\ UNCHANGED <<scraping, log>>

NextStrip ==
  \/ OpenDoc
  \/ DeleteLinks
  \/ CloseUnmodified
  \/ SaveBegin
  \/ SaveEnd
  \/ ReplaceOriginal
  \/ StripRaises

SpecStrip == InitStrip /\ [][NextStrip]_vars

\* C19: when the document has no link annotation, the hyperlink removal
\* writes, replaces and renames nothing (the directory stays as it was, no
\* temporary file appears) and, when it returns, has reported False.
C19_LinkFreeLeftUntouched ==
  LinkFree(call.before[call.file_path]) =>
    /\ fs = call.before
    /\ pc = "done" => call.result = FALSE

\* C20: while remove_hyperlinks_from_pdf runs, the original path holds the
\* whole original document or the whole stripped document; when the saving
\* of the temporary file failed, the original is as it was and the call has
\* returned False.
C20_ReplacesAtomically ==
  call.tool = "remove_hyperlinks_from_pdf" =>
    /\ call.file_path \in DOMAIN fs
    /\ fs[call.file_path] \in { call.before[call.file_path],
                                Stripped(call.before[call.file_path]) }
    /\ call.failed = "saving" =>
         /\ fs[call.file_path] = call.before[call.file_path]
         /\ pc = "done"
         /\ call.result = FALSE

\* the saving failed after a part of the temporary file was written
C20_Witness ==
  /\ call.tool = "remove_hyperlinks_from_pdf"
  /\ call.failed = "saving"
  /\ call.file_path \o S_tmp \in DOMAIN fs
  /\ ~fs[call.file_path \o S_tmp].whole
  /\ ~LinkFree(fs[call.file_path])

(***************************************************************************)
(* find_drive_links_on_page: what the caller receives                      *)
(***************************************************************************)
\* response.text: the content of the page, empty for a page without content
html_content(pg) == [lead |-> pg.lead, anchors |-> pg.anchors, raw |-> pg.raw]

\* line 444: return unique_drive_links, html_content; line 448: return [], ""
Returned(pg) ==
  IF pg.ok
    THEN <<find_drive_links_on_page(pg), html_content(pg)>>
    ELSE <<<<>>, html_content(Page(<<>>, <<>>))>>

\* C21: when the page could not be retrieved, what find_drive_links_on_page
\* returned to scrape_subject differs from what it returns for every
\* retrievable page without a recognizable reference.
C21_FetchFailureIsAnError ==
  (pc # "idle" /\ ~page.ok) =>
    \A pg \in Pages :
      (pg.ok /\ find_drive_links_on_page(pg) = <<>>) => Returned(pg) # Returned(page)

\* no reserved character, and the extension .pdf once at the end
Canonical(filename) ==
  /\ \A k \in 1..Len(filename) : filename[k] \notin ReservedChars
  /\ EndsWith(Lower(filename), S_pdf)
  /\ ~EndsWith(Lower(filename), S_pdf \o S_pdf)

\* C22: every name scrape_subject tested for existence and every name
\* download_drive_pdf wrote a file under has no reserved character and ends
\* with .pdf once.
C22_NamesAreCanonical ==
  \A k \in 1..Len(log) :
    /\ Canonical(log[k].lookup)
    /\ log[k].filename # None => Canonical(log[k].filename)

(***************************************************************************)
(* KTUNotesDownloader.run_downloader from the confirmation on, with the    *)
(* counting of scrape_subject.  fs is the download directory: name ->      *)
(* [kind, files], a subject directory with the names of its files or a     *)
(* regular file.  download_drive_pdf is a choice of its result; the        *)
(* specification Spec has its steps.                                       *)
(***************************************************************************)
\* lines 329-339 of get_subject_links: the first link of each name is kept,
\* names compared in lower case with whitespace collapsed
RECURSIVE UniqueNames(_, _)
UniqueNames(subject_links, seen_names) ==
  IF subject_links = <<>> THEN <<>>
  ELSE IF \/ Strip(CollapseSpaces(Lower(Head(subject_links)))) \in seen_names
          \/ Head(subject_links) = <<>>
    THEN UniqueNames(Tail(subject_links), seen_names)
    ELSE <<Head(subject_links)>>
           \o UniqueNames(Tail(subject_links),
                seen_names \cup {Strip(CollapseSpaces(Lower(Head(subject_links))))})

\* line 676: clean_name = clean_name[:80]
MaxDirName == 80

\* lines 674-676: the name of the directory of a subject
DirName(name) ==
  Take(Strip(CollapseSpaces(
         [k \in 1..Len(name) |->
            IF name[k] \in ReservedChars \cup {"&"} THEN "_" ELSE name[k]])),
       MaxDirName)

Repeated(c, n) == [k \in 1..n |-> c]

S_CS301 == <<"C","S"," ","3","0","1">>

\* the subject names the buttons of the semester page give (lines 264-268):
\* a name, the same name in lower case, and two names that differ in
\* character 81
ButtonNames ==
  { S_CS301, Lower(S_CS301),
    Repeated("x", MaxDirName) \o <<"1">>, Repeated("x", MaxDirName) \o <<"2">> }

\* the semester page has at most MaxSubjects buttons
MaxSubjects == 2

\* a subject page has at most MaxRefs references
MaxRefs == 2

Dir(files) == [kind |-> "dir", files |-> files]

\* the name scrape_subject looks up for reference r
RefName(r) == <<"f">> \o DecStr(r) \o S_pdf

\* the download directory before the run: empty, a regular file under the
\* name of a subject, or the directory of a subject with a file of an
\* earlier run
InitialTrees ==
  { <<>>,
    [n \in {S_CS301} |-> [kind |-> "file", files |-> {}]],
    [n \in {S_CS301} |-> Dir({RefName(1)})] }

InitRun ==
  /\ Alone
  /\ log = <<>>
  /\ fs \in InitialTrees
  /\ pc = "confirmed"
  /\ \E n \in 1..MaxSubjects, process_after \in BOOLEAN :
       \E buttons \in [1..n -> ButtonNames] :
         \E choice \in {0} \cup (1..Len(UniqueNames(buttons, {}))) :
           call = [subject_links |-> UniqueNames(buttons, {}),
                   selected_indices |->
                     IF choice = 0
                       THEN [k \in 1..Len(UniqueNames(buttons, {})) |-> k]
                       ELSE <<choice>>,
                   process_after |-> process_after,
                   at |-> 0, subject_dir |-> <<>>, refs |-> 0, r |-> 0,
                   downloaded_count |-> 0, total_downloaded |-> 0]

Event(ev, ref) ==
  [ev |-> ev, at |-> call.at, subject |-> call.selected_indices[call.at],
   dir |-> call.subject_dir, ref |-> ref]

\* lines 660-668: the download directory is made and the loop starts
StartRun ==
  /\ pc = "confirmed"
  /\ call' = [call EXCEPT !.at = 1]
  /\ pc' = "subject"
  /\ UNCHANGED <<scraping, fs, log>>

\* lines 669-679 and 452-460: subject_dir.mkdir(parents=True, exist_ok=True)
\* raises when a regular file has the name; then scrape_subject reads the
\* page, which gives refs references (none when the page cannot be fetched)
EnterSubject(subject_dir) ==
  /\ pc = "subject"
  /\ IF subject_dir \in DOMAIN fs /\ fs[subject_dir].kind = "file"
       THEN /\ pc' = "raised"
            /\ UNCHANGED <<fs, call, log>>
       ELSE /\ fs' = IF subject_dir \in DOMAIN fs THEN fs
                     ELSE WriteFile(fs, subject_dir, Dir({}))
            /\ \E refs \in 0..MaxRefs :
                 /\ call' = [call EXCEPT !.subject_dir = subject_dir, !.refs = refs,
                                         !.r = 1, !.downloaded_count = 0]
                 /\ log' = Append(log, [ev |-> "subject", at |-> call.at,
                                        subject |-> call.selected_indices[call.at],
                                        dir |-> subject_dir, ref |-> refs])
            /\ pc' = "refs"
  /\ UNCHANGED scraping

VisitSubject ==
  EnterSubject(DirName(call.subject_links[call.selected_indices[call.at]]))

\* lines 500-504 and 538-541: the file is there, the reference is counted
SkipReference ==
  /\ pc = "refs"
  /\ call.r <= call.refs
  /\ RefName(call.r) \in fs[call.subject_dir].files
  /\ call' = [call EXCEPT !.r = @ + 1, !.downloaded_count = @ + 1]
  /\ log' = Append(log, Event("skipped", call.r))
  /\ UNCHANGED <<scraping, fs, pc>>

\* lines 505-508 and 543-548: download_drive_pdf stores the file and
\* returns True, or returns False
DownloadReference ==
  /\ pc = "refs"
  /\ call.r <= call.refs
  /\ RefName(call.r) \notin fs[call.subject_dir].files
  /\ \E result \in BOOLEAN :
       /\ fs' = IF result
                  THEN [fs EXCEPT ![call.subject_dir].files = @ \cup {RefName(call.r)}]
                  ELSE fs
       /\ call' = [call EXCEPT !.r = @ + 1,
                               !.downloaded_count = IF result THEN @ + 1 ELSE @]
       /\ log' = Append(log, Event(IF result THEN "stored" ELSE "failed", call.r))
  /\ UNCHANGED <<scraping, pc>>

\* lines 550-556: the directory is processed when process_after is set and
\* downloaded_count > 0, and scrape_subject returns downloaded_count
EndSubject ==
  /\ pc = "refs"
  /\ call.r > call.refs
  /\ log' = IF call.process_after /\ call.downloaded_count > 0
              THEN Append(log, Event("processed", 0))
              ELSE log
  /\ pc' = "scraped"
  /\ UNCHANGED <<scraping, fs, call>>

\* lines 686-692: the count is added, and the next subject is taken
NextSubject ==
  /\ pc = "scraped"
  /\ call' = [call EXCEPT !.total_downloaded = @ + call.downloaded_count,
                          !.at = IF call.at < Len(call.selected_indices) THEN @ + 1 ELSE @]
  /\ pc' = IF call.at < Len(call.selected_indices) THEN "subject" ELSE "tally"
  /\ UNCHANGED <<scraping, fs, log>>

\* lines 694-703: the final summary
Summary ==
  /\ pc = "tally"
  /\ log' = Append(log, Event("summary", call.total_downloaded))
  /\ pc' = "end"
  /\ UNCHANGED <<scraping, fs, call>>

NextRunDownloader ==
  \/ StartRun
  \/ VisitSubject
  \/ SkipReference
  \/ DownloadReference
  \/ EndSubject
  \/ NextSubject
  \/ Summary

SpecRun == InitRun /\ [][NextRunDownloader]_vars

\* C23: after the confirmation run_downloader never ends without the final
\* summary: no failure while a subject is handled takes it out of the loop.
C23_TallyAlwaysProduced == pc # "raised"

(***************************************************************************)
(* PDFProcessor.process_single_directory: the loop over the PDF files the  *)
(* directory held when it started.  fs is the directory, name -> document. *)
(***************************************************************************)
\* the file names of the model: a name with branding, the name it is
\* stripped to, and another one
ProcessNames ==
  { <<"a"," ","-"," ">> \o S_ktunotes_in \o S_pdf, <<"a">> \o S_pdf, <<"b">> \o S_pdf }

ProcessDirs ==
  UNION { { [n \in names |-> Pdf(n, links[n])] : links \in [names -> {<<0>>, <<2>>}] } :
            names \in { x \in SUBSET ProcessNames : x # {} /\ Cardinality(x) <= MaxFiles } }

\* list(directory.glob("*.pdf")): the PDF files of dir, in some order
Globbed(dir) ==
  { order \in [1..Cardinality(DOMAIN dir) -> DOMAIN dir] :
      \A a, b \in DOMAIN order : a # b => order[a] # order[b] }

InitProcess ==
  /\ Alone
  /\ log = <<>>
  /\ fs \in ProcessDirs
  /\ pc = "rename_step"
  /\ \E pdf_files \in Globbed(fs), rename \in BOOLEAN, remove_hyperlinks \in BOOLEAN :
       call = [pdf_files |-> pdf_files, rename |-> rename,
               remove_hyperlinks |-> remove_hyperlinks, k |-> 1,
               current_file |-> pdf_files[1], processed_count |-> 0,
               renamed_count |-> 0, hyperlinks_removed |-> 0]

\* lines 806-811: current_file, renamed = self.rename_pdf_file(current_file)
RenameTo(new_filename, raises) ==
  /\ fs' = IF new_filename # call.current_file /\ ~raises
             THEN MoveFile(fs, call.current_file, new_filename)
             ELSE fs
  /\ call' = [call EXCEPT
                !.current_file = IF raises THEN @ ELSE new_filename,
                !.renamed_count =
                  IF new_filename # call.current_file /\ ~raises THEN @ + 1 ELSE @]
  /\ log' = Append(log, [step |-> "rename", file |-> call.pdf_files[call.k],
                         path |-> IF raises THEN call.current_file ELSE new_filename,
                         failed |-> new_filename # call.current_file /\ raises])

\* the loop is left when the renaming of a file fails
RenameStep_aborts ==
  /\ pc = "rename_step"
  /\ \E raises \in BOOLEAN :
       /\ IF call.rename
            THEN RenameTo(IF StripBranding(call.current_file) # call.current_file
                            THEN FreeName(fs, StripBranding(call.current_file), 1)
                            ELSE call.current_file, raises)
            ELSE UNCHANGED <<fs, call, log>>
       /\ pc' = IF call.rename /\ raises THEN "end" ELSE "strip_step"
  /\ UNCHANGED scraping

\* lines 803-811: the renaming step for file k of the snapshot
RenameStep ==
  /\ pc = "rename_step"
  /\ IF call.rename
       THEN \E raises \in BOOLEAN :
              RenameTo(IF StripBranding(call.current_file) # call.current_file
                         THEN FreeName(fs, StripBranding(call.current_file), 1)
                         ELSE call.current_file, raises)
       ELSE UNCHANGED <<fs, call, log>>
  /\ pc' = "strip_step"
  /\ UNCHANGED scraping

\* remove_hyperlinks_from_pdf(current_file): True with the links removed,
\* False for a document without links, False when it fails, in which case
\* a partly written temporary file may stay
StripTo(outcome) ==
  /\ fs' = CASE outcome = "removed" ->
                  [fs EXCEPT ![call.current_file] = Stripped(@)]
             [] outcome = "left" ->
                  WriteFile(fs, call.current_file \o S_tmp,
                            Partial(Stripped(fs[call.current_file])))
             [] OTHER -> fs
  /\ log' = Append(log, [step |-> "strip", file |-> call.pdf_files[call.k],
                         path |-> call.current_file,
                         failed |-> outcome \in {"failed", "left"}])

\* lines 813-820: the hyperlink step, the count, and the next file
StripStep ==
  /\ pc = "strip_step"
  /\ \E outcome \in {"removed", "none", "failed", "left"} :
       /\ outcome = "none" => (call.remove_hyperlinks => LinkFree(fs[call.current_file]))
       /\ outcome # "none" => call.remove_hyperlinks
       /\ outcome \in {"removed", "left"} => ~LinkFree(fs[call.current_file])
       /\ IF call.remove_hyperlinks
            THEN StripTo(outcome)
            ELSE UNCHANGED <<fs, log>>
       /\ call' = [call EXCEPT
                     !.hyperlinks_removed = IF outcome = "removed" THEN @ + 1 ELSE @,
                     !.processed_count = @ + 1,
                     !.k = @ + 1,
                     !.current_file = IF call.k < Len(call.pdf_files)
                                        THEN call.pdf_files[call.k + 1] ELSE @]
  /\ pc' = IF call.k < Len(call.pdf_files) THEN "rename_step" ELSE "end"
  /\ UNCHANGED scraping

NextProcess == RenameStep \/ StripStep

SpecProcess == InitProcess /\ [][NextProcess]_vars

\* the steps logged for file f of the snapshot
StepsOf(f, step) == SelectSeq(log, LAMBDA e : e.file = f /\ e.step = step)

\* C24: when process_single_directory returns, every PDF of the snapshot
\* was attempted once, whatever failed for the others: one renaming step
\* when rename is set, one hyperlink step when remove_hyperlinks is set,
\* the hyperlink step after the renaming and on the path it returned; and
\* renamed_count <= processed_count, hyperlinks_removed <= processed_count
\* <= the number of PDFs of the snapshot.
C24_FailuresAreIsolated ==
  pc = "end" =>
    /\ \A k \in 1..Len(call.pdf_files) :
         /\ Len(StepsOf(call.pdf_files[k], "rename")) = IF call.rename THEN 1 ELSE 0
         /\ Len(StepsOf(call.pdf_files[k], "strip")) =
              IF call.remove_hyperlinks THEN 1 ELSE 0
         /\ \A a, b \in 1..Len(log) :
              (/\ log[a].file = call.pdf_files[k] /\ log[a].step = "rename"
               /\ log[b].file = call.pdf_files[k] /\ log[b].step = "strip")
                => a < b /\ log[b].path = log[a].path /\ log[b].path \in DOMAIN fs
    /\ call.processed_count = Len(call.pdf_files)
    /\ call.renamed_count <= call.processed_count
    /\ call.hyperlinks_removed <= call.processed_count

\* the renaming of the first file and the hyperlink step of the second
\* failed, and the third file was renamed and stripped
C24_Witness ==
  /\ pc = "end"
  /\ Len(call.pdf_files) = 3
  /\ \E a, b \in 1..Len(log) :
       /\ log[a].failed /\ log[a].step = "rename"
       /\ log[b].failed /\ log[b].step = "strip" /\ log[b].file # log[a].file
  /\ call.renamed_count + call.hyperlinks_removed > 0

\* the page of the end-to-end scenario: one anchor to /file/d/ABC123/view
\* with the text "Module 2 - Arrays"
PgModule2 ==
  Page(<<Anchor(DriveUrl(Id1),
                <<"M","o","d","u","l","e"," ","2"," ","-"," ","A","r","r","a","y","s">>,
                FALSE)>>, <<>>)

S_Module_02_pdf == S_Module_ \o <<"0","2">> \o S_pdf

\* C25: for the page with the one anchor "Module 2 - Arrays", a server that
\* sends no Content-Disposition name and no view page, and a body that is a
\* PDF, the first run of scrape_subject stores one file, Module_02.pdf,
\* whole, and no file under another name (a notes.pdf that was there before
\* is as it was).
C25_StoredAsModule02 ==
  (/\ pc = "done" /\ run = 1 /\ page = PgModule2
   /\ server[Id1] \in {Profiles(Id1)[1], Profiles(Id1)[5]}
   /\ Len(log) = 1 /\ log[1].outcome = "stored")
    => /\ DOMAIN fs \ {F_notes} = {S_Module_02_pdf}
       /\ fs[S_Module_02_pdf] = File(PdfResponse(Id1, <<>>).text, 2, 2)
       /\ F_notes \in DOMAIN fs =>
            \E dir \in InitialDirs : F_notes \in DOMAIN dir /\ fs[F_notes] = dir[F_notes]

\* the PDF came after the confirmation of the warning page
C25_Witness ==
  /\ pc = "done" /\ run = 1 /\ page = PgModule2
  /\ server[Id1] = Profiles(Id1)[5]
  /\ Len(log) = 1 /\ log[1].outcome = "stored"
  /\ S_Module_02_pdf \in DOMAIN fs
  /\ F_notes \notin DOMAIN fs

(***************************************************************************)
(* find_drive_links_on_page on its own, over pages that have anchors and   *)
(* identifiers in their source.                                            *)
(***************************************************************************)
\* the anchors of the pages: two documents, a button for the first, and a
\* link that is no Drive link
FindAnchors ==
  { Anchor(DriveUrl(Id1), <<"M","o","d","u","l","e"," ","1">>, FALSE),
    Anchor(OpenUrl(Id2), <<"S","l","i","d","e","s">>, FALSE),
    Anchor(DriveUrl(Id1), <<"D","o","w","n","l","o","a","d">>, TRUE),
    Anchor(<<"/","a","b","o","u","t">>, <<"A","b","o","u","t">>, FALSE) }

\* the matches of the patterns of CASE 3 in the page source, with the text
\* found around them
FindRaws ==
  { <<>>,
    <<[file_id |-> Id1, text |-> <<"S","c","r","i","p","t">>]>>,
    <<[file_id |-> Id2, text |-> <<>>]>>,
    <<[file_id |-> Id1, text |-> <<"S","c","r","i","p","t">>],
      [file_id |-> Id2, text |-> <<>>]>> }

\* a page has at most MaxAnchors anchors
MaxAnchors == 2

InitFind ==
  /\ \E n \in 0..MaxAnchors, raw \in FindRaws :
       \E anchors \in [1..n -> FindAnchors] : page = Page(anchors, raw)
  /\ subject_name = <<>>
  /\ server = [id \in Ids |-> Profiles(id)[1]]
  /\ fs = <<>>
  /\ clock = 0
  /\ run = 1
  /\ pc = "find"
  /\ drive_links = <<>>
  /\ filtered_drive_links = <<>>
  /\ i = 0
  /\ save_path = <<>>
  /\ downloaded_count = 0
  /\ call = NoCall
  /\ net = <<>>
  /\ log = <<>>

\* line 456: drive_links, html_content = self.find_drive_links_on_page(url)
Find ==
  /\ pc = "find"
  /\ drive_links' = find_drive_links_on_page(page)
  /\ pc' = "found"
  /\ UNCHANGED <<inputs, fs, clock, run, filtered_drive_links, i, save_path,
                 downloaded_count, call, net, log>>

NextFind == Find

SpecFind == InitFind /\ [][NextFind]_vars

\* the reference is the one of an anchor of the page, with its text
FromAnchor(pg, link) ==
  \E k \in 1..Len(pg.anchors) :
    /\ DriveId(pg.anchors[k].href) = link.file_id
    /\ pg.anchors[k].text = link.text

\* some anchor of the page is a reference
Anchored(pg) == \E k \in 1..Len(pg.anchors) : DriveId(pg.anchors[k].href) # None

\* C26: when an anchor of the page is a reference, every reference returned
\* is the one of an anchor, with the text of that anchor, and the matches of
\* the text scan add none; the text scan gives the references only when no
\* anchor is one.
C26_TextScanIsFallback ==
  pc = "found" =>
    /\ Anchored(page) => \A k \in 1..Len(drive_links) : FromAnchor(page, drive_links[k])
    /\ ~Anchored(page) => drive_links = SortLinks(UniqueLinks(RawLinks(page.raw, <<>>), {}))

\* the source of the page holds an identifier that no anchor has, and the
\* anchor is the only reference returned
C26_Witness ==
  /\ pc = "found"
  /\ Anchored(page)
  /\ \E k \in 1..Len(page.raw) :
       \A j \in 1..Len(page.anchors) : DriveId(page.anchors[j].href) # page.raw[k].file_id
  /\ Len(drive_links) = 1

\* C27: a reference whose body failed the %PDF test in one run is not
\* skipped as already present (and so counted) by a later run of
\* scrape_subject, unless it was retrieved as a valid PDF in between.
C27_InvalidNotCountedLater ==
  \A a, b \in 1..Len(log) :
    (/\ log[a].run < log[b].run
     /\ SameReference(a, b)
     /\ log[a].error = "signature"
     /\ log[b].outcome = "skipped")
      => \E c \in a + 1..b - 1 :
           SameReference(a, c) /\ log[c].outcome = "stored"

\* <stem>_<k><ext> for the stripped name target
Suffix(target, k) == Numbered(target, ExtDot(target, Len(target)), k)

\* C28: when the stripped name is taken, rename_pdf_file renames the file
\* to <stem>_<k><ext> with k the smallest positive number whose name is
\* free.
C28_SmallestFreeSuffix ==
  (/\ pc \in {"renamed", "renamed_again"}
   /\ LastPass.renamed
   /\ StripBranding(LastPass.pdf_file) \in DOMAIN LastPass.before)
    => \E k \in 1..Cardinality(DOMAIN LastPass.before) :
         /\ LastPass.path = Suffix(StripBranding(LastPass.pdf_file), k)
         /\ \A j \in 1..k :
              Suffix(StripBranding(LastPass.pdf_file), j) \in DOMAIN LastPass.before <=> j < k

\* the positions in log of the references handled for the subject at
\* position at of the selection
Handlings(at) ==
  { k \in 1..Len(log) : log[k].at = at /\ log[k].ev \in {"skipped", "stored", "failed"} }

\* the post-processing at log[p] comes after every reference of its
\* subject and before anything of the next subject
ProcessedInPlace(p) ==
  /\ \A k \in Handlings(log[p].at) : k < p
  /\ \E k \in 1..p - 1 :
       /\ log[k].ev = "subject" /\ log[k].at = log[p].at
       /\ Cardinality(Handlings(log[p].at)) = log[k].ref
  /\ \A k \in 1..Len(log) : log[k].at > log[p].at => k > p

\* C29: with process_after, the directory of a subject is processed after
\* all references of the subject were handled and before the next subject,
\* and only when a file of the subject was stored in this run.
C29_ProcessedAfterNewDownloads ==
  \A p \in 1..Len(log) :
    log[p].ev = "processed" =>
      /\ call.process_after
      /\ ProcessedInPlace(p)
      /\ \E k \in Handlings(log[p].at) : log[k].ev = "stored"

\* the first part of the statement of C29 alone
C29_InPlace ==
  \A p \in 1..Len(log) :
    log[p].ev = "processed" => call.process_after /\ ProcessedInPlace(p)

\* C30: the subjects get_subject_links returned have pairwise distinct
\* names, compared in lower case with whitespace collapsed, and two distinct
\* subjects visited in one run have distinct directories.
C30_SubjectsKeepApart ==
  /\ \A a, b \in 1..Len(call.subject_links) :
       a # b => Strip(CollapseSpaces(Lower(call.subject_links[a])))
                  # Strip(CollapseSpaces(Lower(call.subject_links[b])))
  /\ \A p, q \in 1..Len(log) :
       (/\ log[p].ev = "subject" /\ log[q].ev = "subject"
        /\ log[p].subject # log[q].subject)
         => log[p].dir # log[q].dir

====
